---- MODULE Spec2Model ----
(***************************************************************************)
(* Model of the soxdrawer HTTP gateway: the stateless signed-cookie server *)
(* (internal/http/server.go + the auth helpers kept in store.go), the      *)
(* stateful session-table server (second half of server.go) and the        *)
(* AuthManager of internal/auth/auth.go.                                   *)
(*                                                                         *)
(* Strings.  A Go string is modelled by the list of its '.'-free fields,   *)
(* i.e. by what strings.Split(s, ".") returns; each field is the sequence  *)
(* of the ASCII codes of its characters, none of them 46 ('.').  The empty *)
(* string is << <<>> >>.  A missing cookie is the empty list of fields     *)
(* <<>>, which is no string at all.                                        *)
(*                                                                         *)
(* Time.  The clock counts ticks; TicksPerSecond of them make one second,  *)
(* so that time.Now().Unix() really truncates.                             *)
(***************************************************************************)
EXTENDS Integers, Sequences, FiniteSets, TLC

\* ---------------------------------------------------------------- bounds
TicksPerSecond == 3
\* wall clock at start-up, in seconds since the epoch
StartSeconds == 100000
\* how many times the clock may advance in one behaviour
MaxJumps == 3
\* how many successful logins one behaviour may hold
MaxLogins == 2
\* goroutine-level view: concurrent callers of the AuthManager, and the calls
\* they may begin in one behaviour
NumCallers == 2
MaxOps == 3

\* ------------------------------------------------------- program constants
\* store.go: SessionDuration = 12 * time.Hour, in seconds
SessionDuration == 43200
\* auth.go: SessionDuration = 24 * time.Hour, in seconds
AuthSessionDuration == 86400

\* ------------------------------------------------------------- strings
NoCookie == <<>>
EmptyString == << <<>> >>
\* ASCII '.'
DotChar == 46

\* the ASCII code of the decimal digit d
DigitChar(d) == 48 + d

\* the ASCII code of the lower-case hex digit h
HexChar(h) == IF h < 10 THEN 48 + h ELSE 87 + h

RECURSIVE Digits(_)
\* fmt.Sprintf("%d", n) for n >= 0
Digits(n) ==
  IF n < 10 THEN <<DigitChar(n)>> ELSE Digits(n \div 10) \o <<DigitChar(n % 10)>>

RECURSIVE ScanInt(_, _)
\* the value of the longest prefix of decimal digits, continuing from acc
ScanInt(s, acc) ==
  IF s = <<>> \/ Head(s) < 48 \/ Head(s) > 57 THEN acc
  ELSE ScanInt(Tail(s), acc * 10 + (Head(s) - 48))

\* fmt.Sscanf(s, "%d", &v) into a variable that starts at 0: the variable
\* stays 0 when no digit can be read
Sscanf(s) == ScanInt(s, 0)

RECURSIVE HexEncode(_)
\* hex.EncodeToString: two hex digits per byte
HexEncode(bytes) ==
  IF bytes = <<>> THEN <<>>
  ELSE <<HexChar(Head(bytes) \div 16), HexChar(Head(bytes) % 16)>>
       \o HexEncode(Tail(bytes))

RECURSIVE Bytes(_)
\* []byte(s) of a string: the fields joined by the '.' byte
Bytes(s) ==
  IF Len(s) = 0 THEN <<>>
  ELSE IF Len(s) = 1 THEN s[1]
  ELSE s[1] \o <<DotChar>> \o Bytes(Tail(s))

\* h := hmac.New(sha256.New, key); h.Write(msg); h.Sum(nil)
\* The digest is idealised as the injective byte string key ++ 0xff ++ msg.
HmacSum(key, msg) == key \o <<255>> \o msg

\* unix seconds of a clock reading: time.Now().Unix()
Unix(t) == t \div TicksPerSecond

\* strings.Split(s, "."): the model's strings already are their field lists
Split(s) == s

\* createSessionToken keying the HMAC with nothing instead of the secret
MutCreateUnkeyed(authToken, t) ==
  LET timestamp == Digits(Unix(t))
      signature == HexEncode(HmacSum(<<>>, timestamp))
  IN  <<timestamp, signature>>

\* createSessionToken at clock reading t
createSessionToken(authToken, t) ==
  LET timestamp == Digits(Unix(t))
      signature == HexEncode(HmacSum(Bytes(authToken), timestamp))
  IN  <<timestamp, signature>>

\* validateSessionToken expiring the token with >= instead of >
MutValidateStrictExpiry(sessionToken, authToken, t) ==
  LET parts == Split(sessionToken)
  IN  IF Len(parts) # 2 THEN "malformed"
      ELSE IF parts[2] # HexEncode(HmacSum(Bytes(authToken), parts[1])) THEN "badsig"
      ELSE IF t - Sscanf(parts[1]) * TicksPerSecond >= SessionDuration * TicksPerSecond
           THEN "expired"
      ELSE "ok"

\* validateSessionToken looking at the age before the signature
MutValidateExpiryFirst(sessionToken, authToken, t) ==
  LET parts == Split(sessionToken)
  IN  IF Len(parts) # 2 THEN "malformed"
      ELSE IF t - Sscanf(parts[1]) * TicksPerSecond > SessionDuration * TicksPerSecond
           THEN "expired"
      ELSE IF parts[2] # HexEncode(HmacSum(Bytes(authToken), parts[1])) THEN "badsig"
      ELSE "ok"

\* validateSessionToken content with the first two of more fields
MutValidateSplitLoose(sessionToken, authToken, t) ==
  LET parts == Split(sessionToken)
  IN  IF Len(parts) < 2 THEN "malformed"
      ELSE IF parts[2] # HexEncode(HmacSum(Bytes(authToken), parts[1])) THEN "badsig"
      ELSE IF t - Sscanf(parts[1]) * TicksPerSecond > SessionDuration * TicksPerSecond
           THEN "expired"
      ELSE "ok"

\* validateSessionToken at clock reading t: "ok" is (true, nil), the others
\* are the three errors
validateSessionToken(sessionToken, authToken, t) ==
  LET parts == Split(sessionToken)
  IN  IF Len(parts) # 2 THEN "malformed"
      ELSE LET timestamp == parts[1]
               signature == parts[2]
               expectedSignature == HexEncode(HmacSum(Bytes(authToken), timestamp))
               tokenTime == Sscanf(timestamp) * TicksPerSecond
           IN  IF signature # expectedSignature THEN "badsig"
               ELSE IF t - tokenTime > SessionDuration * TicksPerSecond
                    THEN "expired"
               ELSE "ok"

\* ------------------------------------------------------------ state
VARIABLES
  variant,      \* "stateless" (signed cookie) or "stateful" (session table)
  authEnabled,  \* Server.authEnabled of the stateful server
  authToken,    \* Server.authToken of the stateless server
  users,        \* AuthManager.users: username -> User
  sessions,     \* AuthManager.sessions: session id -> Session
  removers,     \* ids with a spawned, not yet run removeExpiredSession
  now,          \* the wall clock, in ticks
  jumps,        \* clock advances so far
  logins,       \* successful logins so far
  issued,       \* history: the session cookies handed out, with the instant
  loggedOut,    \* history: cookie values the logout handler has processed
  last,         \* the request (or sweep) served last and its response
  mu,           \* AuthManager.mutex, for the goroutine-level view
  procs,        \* the goroutines calling into the AuthManager, by number
  ops,          \* AuthManager calls (store operations) begun so far
  bucket,       \* the object store bucket: key -> object
  inflight,     \* uploads between the construction of the key and the put
  log,          \* history: the store operations completed, in order
  reply,        \* the response to the last request that left the bucket alone
  disk,         \* the configuration file
  boot,         \* main: where it stands and the configuration it holds
  journal       \* the process log: the lines written, with their argument

vars == <<variant, authEnabled, authToken, users, sessions, removers, now,
          jumps, logins, issued, loggedOut, last, mu, procs, ops,
          bucket, inflight, log, reply, disk, boot, journal>>

\* the variables only the start-up view moves
BootVars == <<disk, boot, journal>>

\* the variables only the object gateway moves
StoreVars == <<bucket, inflight, log, reply>>

\* the variables only the goroutine-level view moves
LockVars == <<mu, procs, ops>>

\* the session lifetime of a variant, in ticks
DurationTicks(v) ==
  IF v = "stateless" THEN SessionDuration * TicksPerSecond
  ELSE AuthSessionDuration * TicksPerSecond

\* ------------------------------------------------------- credential store
\* two one-letter secrets, "a" and "b"
Secrets == { << <<97>> >>, << <<98>> >> }

\* bcrypt.GenerateFromPassword, idealised: a one-way image of the password
GenerateFromPassword(password) == <<"bcrypt", password>>

\* bcrypt.CompareHashAndPassword(hash, password) = nil
CompareHashAndPassword(hash, password) == hash = GenerateFromPassword(password)

InitialUsers ==
  [u \in {"alice"} |->
     [PasswordHash |-> GenerateFromPassword("correct horse"), LastLogin |-> 0]]

\* generateSessionID: hex of SessionIDLength random bytes; the n-th draw is
\* idealised as a value no earlier draw returned
generateSessionID(n) == << HexEncode(<<n>>) >>

\* ------------------------------------------------------------ AuthManager
\* Every method holds am.mutex for its whole body, so here each is one step.

\* ValidateSession refusing the session of a username that is not a user
MutValidateSessionKnownUser(tbl, sessionID, t) ==
  IF sessionID \notin DOMAIN tbl \/ tbl[sessionID].Username \notin DOMAIN users
  THEN [username |-> "", err |-> "invalid session"]
  ELSE IF t > tbl[sessionID].ExpiresAt
  THEN [username |-> "", err |-> "session expired"]
  ELSE [username |-> tbl[sessionID].Username, err |-> "ok"]

\* ValidateSession taking every session of the table for expired
MutValidateSessionAlwaysExpired(tbl, sessionID, t) ==
  IF sessionID \notin DOMAIN tbl
  THEN [username |-> "", err |-> "invalid session"]
  ELSE [username |-> "", err |-> "session expired"]

\* ValidateSession expiring the session with !Before instead of After
MutValidateSessionStrict(tbl, sessionID, t) ==
  IF sessionID \notin DOMAIN tbl
  THEN [username |-> "", err |-> "invalid session"]
  ELSE IF t >= tbl[sessionID].ExpiresAt
  THEN [username |-> "", err |-> "session expired"]
  ELSE [username |-> tbl[sessionID].Username, err |-> "ok"]

\* ValidateSession at clock reading t: the username and the error ("ok" is nil)
ValidateSession(tbl, sessionID, t) ==
  IF sessionID \notin DOMAIN tbl
  THEN [username |-> "", err |-> "invalid session"]
  ELSE IF t > tbl[sessionID].ExpiresAt
  THEN [username |-> "", err |-> "session expired"]
  ELSE [username |-> tbl[sessionID].Username, err |-> "ok"]

\* a delete that removes nothing
MutDeleteNothing(tbl, sessionID) == tbl

\* the table after RevokeSession / removeExpiredSession: delete(am.sessions, id)
DeleteSession(tbl, sessionID) ==
  [id \in DOMAIN tbl \ {sessionID} |-> tbl[id]]

\* RevokeSession without its existence check
MutRevokeSilent(tbl, sessionID) == "nil"

\* RevokeSession's returned error
RevokeSession(tbl, sessionID) ==
  IF sessionID \notin DOMAIN tbl THEN "session not found" ELSE "nil"

\* a sweep that empties the table
MutCleanupAll(tbl, t) == <<>>

\* CleanupExpiredSessions dropping the entries that expire right now as well
MutCleanupInclusive(tbl, t) ==
  [id \in {i \in DOMAIN tbl : ~(t >= tbl[i].ExpiresAt)} |-> tbl[id]]

\* the table after CleanupExpiredSessions at clock reading t
CleanupExpiredSessions(tbl, t) ==
  [id \in {i \in DOMAIN tbl : ~(t > tbl[i].ExpiresAt)} |-> tbl[id]]

\* a credential check that forgets the password
MutCredentialsUserOnly(us, username, password) == username \in DOMAIN us

\* Authenticate's credential check
CredentialsOK(us, username, password) ==
  /\ username \in DOMAIN us
  /\ CompareHashAndPassword(us[username].PasswordHash, password)

\* an Authenticate that ends the user's earlier sessions
MutInsertOnePerUser(tbl, sessionID, username, t) ==
  [id \in {i \in DOMAIN tbl : tbl[i].Username # username} \cup {sessionID} |->
     IF id = sessionID
     THEN [Username |-> username, CreatedAt |-> t,
           ExpiresAt |-> t + AuthSessionDuration * TicksPerSecond]
     ELSE tbl[id]]

\* MinPasswordLength
MinPasswordLength == 8

\* AuthManager.ChangePassword: the users after the call, and the error
ChangePassword(us, username, oldPassword, newPassword) ==
  IF username \notin DOMAIN us THEN [users |-> us, err |-> "user not found"]
  ELSE IF ~CompareHashAndPassword(us[username].PasswordHash, oldPassword)
  THEN [users |-> us, err |-> "invalid current password"]
  ELSE IF Len(newPassword) < MinPasswordLength
  THEN [users |-> us, err |-> "password too short"]
  ELSE [users |-> [us EXCEPT ![username].PasswordHash =
                     GenerateFromPassword(newPassword)],
        err |-> "nil"]

\* a users map without alice
OnlyBob ==
  [u \in {"bob"} |->
     [PasswordHash |-> GenerateFromPassword("tr0ub4dor&3"), LastLogin |-> 0]]

\* AuthManager.SetUsers: am.users = users
SetUsers(us, new) == new

\* the table after a successful Authenticate at clock reading t
InsertSession(tbl, sessionID, username, t) ==
  [id \in DOMAIN tbl \cup {sessionID} |->
     IF id = sessionID
     THEN [Username |-> username, CreatedAt |-> t,
           ExpiresAt |-> t + AuthSessionDuration * TicksPerSecond]
     ELSE tbl[id]]

\* ------------------------------------------------------------- requests
\* A URL path is the list of its segments: "/" is <<>>, "/api/list" is
\* <<"api", "list">>, "/static/app.js" is <<"static", "app.js">>.
Paths ==
  { <<>>, <<"login">>, <<"nope">>, <<"static", "app.js">>,
    <<"static", "..", "api", "list">>,
    <<"api", "auth", "login">>, <<"api", "auth", "logout">>,
    <<"api", "login">>, <<"api", "logout">>,
    <<"api", "list">>, <<"api", "upload">>,
    <<"api", "delete", "k">>, <<"api", "download", "k">> }

Methods == {"GET", "POST", "DELETE", "OPTIONS"}

\* strings.HasPrefix(r.URL.Path, "/static/")
HasStaticPrefix(path) == Len(path) >= 2 /\ path[1] = "static"

RECURSIVE cleanPath(_)
\* path.Clean as ServeMux applies it: ".." removes the preceding segment
cleanPath(path) ==
  IF \E i \in 1..Len(path) : path[i] = ".."
  THEN LET i == CHOOSE k \in 1..Len(path) :
                  path[k] = ".." /\ \A j \in 1..(k - 1) : path[j] # ".."
       IN  cleanPath(SubSeq(path, 1, i - 2) \o SubSeq(path, i + 1, Len(path)))
  ELSE path

\* the request body: a JSON login document or a multipart form
NoBody == [ok |-> FALSE, Token |-> EmptyString, Username |-> "", Password |-> ""]

TokenBodies ==
  { [ok |-> TRUE, Token |-> tk, Username |-> "", Password |-> ""] :
      tk \in Secrets \cup {EmptyString} }

PasswordBodies ==
  { [ok |-> TRUE, Token |-> EmptyString, Username |-> u, Password |-> pw] :
      u \in {"alice", "mallory", ""}, pw \in {"correct horse", "guess"} }

FormBody == [ok |-> TRUE, Token |-> EmptyString, Username |-> "", Password |-> ""]

\* the byte c with bit k flipped
FlipBitOf(c, k) ==
  IF (c \div (2 ^ k)) % 2 = 0 THEN c + 2 ^ k ELSE c - 2 ^ k

\* the field with bit k of its character at position pos flipped
FlipAt(field, pos, k) == [field EXCEPT ![pos] = FlipBitOf(field[pos], k)]

\* a signature with one bit changed: the low bit of its last hex digit
FlipBit(sig) == FlipAt(sig, Len(sig), 0)

\* the cookies handed out so far
IssuedCookies == {i.cookie : i \in issued}

\* the session ids a caller may hand to ValidateSession
SessionIdChoices == IssuedCookies \cup {EmptyString, generateSessionID(255)}

\* cookie values an honest client presents: none, or one it was handed
HonestCookies == {NoCookie} \cup IssuedCookies

\* cookie values a client may present: also the empty one, damaged ones (a
\* changed signature digit, a missing signature) and an invented session id
CookieChoices ==
  HonestCookies \cup {EmptyString}
  \cup (IF variant = "stateless"
        THEN {<<c[1], FlipBit(c[2])>> : c \in IssuedCookies}
             \cup {<<c[1]>> : c \in IssuedCookies}
        ELSE {generateSessionID(255)})

Get(p, c, h) ==
  [method |-> "GET", path |-> p, cookie |-> c, html |-> h, body |-> NoBody]

Post(p, c, b) ==
  [method |-> "POST", path |-> p, cookie |-> c, html |-> FALSE, body |-> b]

\* the requests served: every path by GET, the protected ones with every
\* cookie and as browser navigations (Accept: text/html), the POSTs and
\* DELETEs of the API with and without a body, and the preflights
Requests ==
  { Get(p, c, FALSE) : p \in Paths, c \in HonestCookies }
  \cup
  { Get(p, c, h) : p \in {<<>>, <<"api", "list">>}, c \in CookieChoices,
                   h \in BOOLEAN }
  \cup
  { Get(<<"login">>, c, TRUE) : c \in CookieChoices }
  \cup
  { Post(p, c, NoBody) :
      p \in {<<"api", "auth", "login">>, <<"api", "login">>,
             <<"api", "auth", "logout">>, <<"api", "logout">>,
             <<"api", "upload">>, <<"api", "list">>},
      c \in HonestCookies \cup {generateSessionID(255)} }
  \cup
  { Post(p, NoCookie, b) :
      p \in {<<"api", "auth", "login">>, <<"api", "login">>},
      b \in TokenBodies \cup PasswordBodies }
  \cup
  { Post(<<"api", "upload">>, c, FormBody) : c \in CookieChoices }
  \cup
  { [method |-> "DELETE", path |-> p, cookie |-> c, html |-> FALSE, body |-> NoBody] :
      p \in {<<"api", "delete", "k">>, <<"api", "download", "k">>},
      c \in HonestCookies }
  \cup
  { [method |-> "OPTIONS", path |-> p, cookie |-> c, html |-> FALSE, body |-> NoBody] :
      p \in {<<"api", "list">>, <<"api", "auth", "login">>},
      c \in HonestCookies }

\* ------------------------------------------------------------ middleware
\* getSessionToken: "" when the cookie is missing
getSessionToken(req) == IF req.cookie = NoCookie THEN EmptyString ELSE req.cookie

\* the allow-list test at the head of the stateless authMiddleware
AllowListed(path) ==
  \/ path = <<"login">>
  \/ path = <<"api", "auth", "login">>
  \/ path = <<"api", "auth", "logout">>
  \/ HasStaticPrefix(path)

\* the handler the ServeMux of Server.Start picks for a (clean) path
Route(v, path) ==
  IF HasStaticPrefix(path) THEN "static"
  ELSE IF path = <<"api", "list">> THEN "list"
  ELSE IF path = <<"api", "upload">> THEN "upload"
  ELSE IF Len(path) >= 3 /\ SubSeq(path, 1, 2) = <<"api", "delete">> THEN "delete"
  ELSE IF Len(path) >= 3 /\ SubSeq(path, 1, 2) = <<"api", "download">> THEN "download"
  ELSE IF v = "stateless"
  THEN (IF path = <<"login">> THEN "loginPage"
        ELSE IF path = <<"api", "auth", "login">> THEN "login"
        ELSE IF path = <<"api", "auth", "logout">> THEN "logout"
        ELSE "index")
  ELSE (IF path = <<"api", "login">> THEN "login"
        ELSE IF path = <<"api", "logout">> THEN "logout"
        ELSE "index")

\* the routes Server.Start (stateful) wraps in s.authMiddleware
Wrapped(route) == route \in {"list", "upload", "delete", "download"}

\* authMiddleware letting every request with a cookie through
MutAuthMiddlewareAnyCookie(req) ==
  IF AllowListed(req.path) THEN [gate |-> "open", verdict |-> "-"]
  ELSE IF getSessionToken(req) = EmptyString
  THEN [gate |-> "nocookie", verdict |-> "-"]
  ELSE [gate |-> "pass", verdict |-> "ok"]

\* an authMiddleware that keeps the cookies it saw logged out in mind
MutAuthMiddlewareRemembersLogout(req) ==
  IF AllowListed(req.path) THEN [gate |-> "open", verdict |-> "-"]
  ELSE IF getSessionToken(req) = EmptyString
  THEN [gate |-> "nocookie", verdict |-> "-"]
  ELSE IF req.cookie \in loggedOut
  THEN [gate |-> "invalid", verdict |-> "revoked"]
  ELSE LET v == validateSessionToken(getSessionToken(req), authToken, now)
       IN  [gate |-> IF v = "ok" THEN "pass" ELSE "invalid", verdict |-> v]

\* the stateless authMiddleware: "open" lets an allow-listed path through,
\* "pass" a validated one, "nocookie" and "invalid" are the two refusals
authMiddleware(req) ==
  IF AllowListed(req.path) THEN [gate |-> "open", verdict |-> "-"]
  ELSE IF getSessionToken(req) = EmptyString
  THEN [gate |-> "nocookie", verdict |-> "-"]
  ELSE LET v == validateSessionToken(getSessionToken(req), authToken, now)
       IN  [gate |-> IF v = "ok" THEN "pass" ELSE "invalid", verdict |-> v]

\* the stateful Server.authMiddleware around a wrapped route
authMiddlewareStateful(req) ==
  IF ~authEnabled THEN [gate |-> "open", verdict |-> "-"]
  ELSE IF req.cookie = NoCookie THEN [gate |-> "nocookie", verdict |-> "-"]
  ELSE LET v == ValidateSession(sessions, req.cookie, now).err
       IN  [gate |-> IF v = "ok" THEN "pass" ELSE "invalid", verdict |-> v]

\* the auth stage of a request that got past corsMiddleware
Gate(req) ==
  IF variant = "stateless" THEN authMiddleware(req)
  ELSE IF Wrapped(Route(variant, req.path)) THEN authMiddlewareStateful(req)
  ELSE [gate |-> "open", verdict |-> "-"]

\* ServeMux answers a path that is not clean with a redirect to the clean one
Unclean(req) == cleanPath(req.path) # req.path

\* a mux that hands preflight requests to the handlers as well
MutReachesAnyMethod(req, h) ==
  /\ Route(variant, req.path) = h
  /\ ~Unclean(req)
  /\ Gate(req).gate \in {"open", "pass"}

\* the request reaches the handler of route h
Reaches(req, h) ==
  /\ req.method # "OPTIONS"
  /\ Route(variant, req.path) = h
  /\ ~Unclean(req)
  /\ Gate(req).gate \in {"open", "pass"}

\* ------------------------------------------------------------ responses
\* Access-Control-Allow-Methods, as corsMiddleware sets it on every response
\* before it looks at the method: the methods of "GET, POST, OPTIONS"
AllowMethods == <<"GET", "POST", "OPTIONS">>

Response(req, status, handler, setCookie, cookie, backend, location, revoke) ==
  LET g == IF req.method = "OPTIONS" THEN [gate |-> "none", verdict |-> "-"]
           ELSE Gate(req)
  IN
  [req |-> req, at |-> now, status |-> status, handler |-> handler,
   gate |-> g.gate, verdict |-> g.verdict,
   setCookie |-> setCookie, cookie |-> cookie, backend |-> backend,
   location |-> location, revoke |-> revoke, allow |-> AllowMethods,
   present |-> req.cookie \in DOMAIN sessions,
   expiresAt |-> IF req.cookie \in DOMAIN sessions
                 THEN sessions[req.cookie].ExpiresAt ELSE 0,
   loggedOut |-> req.cookie \in loggedOut]

NoRequest ==
  [method |-> "GET", path |-> <<>>, cookie |-> NoCookie, html |-> FALSE, body |-> NoBody]

\* the goroutines of the goroutine-level view: the callers, then the slots of
\* the removals ValidateSession spawns
Callers == 1..NumCallers
Threads == 1..(NumCallers + MaxOps)

\* sync.RWMutex: w is the goroutine that holds or awaits the write lock (0 for
\* none), readers the goroutines that hold the read lock
Unlocked == [w |-> 0, readers |-> {}]

\* a goroutine outside the AuthManager (a spawn slot not in use)
Parked == [pc |-> "idle", op |-> "-", id |-> NoCookie, ret |-> "-"]

\* no configuration file
NoFile == [exists |-> FALSE, nats |-> "", http |-> EmptyString, users |-> <<>>]

\* main is not part of the view
NoMain == [pc |-> "none", nats |-> "", http |-> EmptyString, users |-> <<>>]

\* no response of the object gateway is on record
NoReply == [handler |-> "none", status |-> 0]

\* no request is being served
Idle ==
  [req |-> NoRequest, at |-> 0, status |-> 0, handler |-> "none",
   gate |-> "none", verdict |-> "-", setCookie |-> "none",
   cookie |-> NoCookie, backend |-> <<>>, location |-> "", allow |-> <<>>,
   revoke |-> "-", present |-> FALSE, expiresAt |-> 0, loggedOut |-> FALSE]

\* the server is between two requests
Ready == last.status = 0

\* ---------------------------------------------------------------- Init
Init ==
  /\ variant \in {"stateless", "stateful"}
  /\ authEnabled \in (IF variant = "stateful" THEN BOOLEAN ELSE {TRUE})
  /\ authToken \in (IF variant = "stateless" THEN Secrets ELSE {EmptyString})
  /\ users = (IF variant = "stateful" THEN InitialUsers ELSE <<>>)
  /\ sessions = <<>>
  /\ removers = {}
  /\ now = StartSeconds * TicksPerSecond
  /\ jumps = 0
  /\ logins = 0
  /\ issued = {}
  /\ loggedOut = {}
  /\ last = Idle
  /\ mu = Unlocked
  /\ procs = [t \in Threads |-> Parked]
  /\ ops = 0
  /\ bucket = <<>>
  /\ inflight = {}
  /\ log = <<>>
  /\ reply = NoReply
  /\ disk = NoFile
  /\ boot = NoMain
  /\ journal = {}

Config == <<variant, authEnabled, authToken>>
Clock == <<now, jumps>>

\* the response is all that changes
Only(resp) ==
  /\ last' = resp
  /\ UNCHANGED <<BootVars, StoreVars, LockVars, Config, Clock, users, sessions, removers, logins, issued, loggedOut>>

\* ------------------------------------------------------------- the clock
Tick ==
  /\ Ready
  /\ jumps < MaxJumps
  /\ \E d \in {1, DurationTicks(variant) - 1} : now' = now + d
  /\ jumps' = jumps + 1
  /\ UNCHANGED <<BootVars, StoreVars, LockVars, Config, users, sessions, removers, logins, issued, loggedOut, last>>

\* ------------------------------------------------- middleware short cuts
\* corsMiddleware: an OPTIONS request ends here with 204
corsMiddleware ==
  /\ Ready
  /\ \E req \in Requests :
    /\ req.method = "OPTIONS"
    /\ Only(Response(req, 204, "none", "none", NoCookie, <<>>, "", "-"))

\* what the stateless authMiddleware answers a request it refuses
refusalResponse(req) ==
  Response(req, IF req.html THEN 303 ELSE 401, "none",
           IF Gate(req).gate = "invalid" THEN "clear" ELSE "none",
           NoCookie, <<>>, IF req.html THEN "/login" ELSE "", "-")

\* the refusal branches of the stateless authMiddleware
authMiddlewareRefuse ==
  /\ Ready
  /\ \E req \in Requests :
    /\ variant = "stateless"
    /\ req.method # "OPTIONS"
    /\ Gate(req).gate \in {"nocookie", "invalid"}
    /\ Only(refusalResponse(req))

\* the refusal branches of the stateful Server.authMiddleware; an expired
\* session makes ValidateSession spawn removeExpiredSession
authMiddlewareStatefulRefuse ==
  /\ Ready
  /\ \E req \in Requests :
    /\ variant = "stateful"
    /\ req.method # "OPTIONS"
    /\ ~Unclean(req)
    /\ Gate(req).gate \in {"nocookie", "invalid"}
    /\ last' = Response(req, 401, "none", "none", NoCookie, <<>>, "", "-")
    /\ removers' = IF Gate(req).verdict = "session expired"
                   THEN removers \cup {req.cookie} ELSE removers
    /\ UNCHANGED <<BootVars, StoreVars, LockVars, Config, Clock, users, sessions, logins, issued, loggedOut>>

\* ServeMux: a path that is not clean is answered with 301
muxRedirect ==
  /\ Ready
  /\ \E req \in Requests :
    /\ req.method # "OPTIONS"
    /\ Gate(req).gate \in {"open", "pass"}
    /\ Unclean(req)
    /\ Only(Response(req, 301, "none", "none", NoCookie, <<>>, "clean", "-"))

\* ------------------------------------------------------------- handlers
\* http.FileServer under /static/
staticHandler ==
  /\ Ready
  /\ \E req \in Requests :
    /\ Reaches(req, "static")
    /\ Only(Response(req, IF req.method = "GET" THEN 200 ELSE 405, "static",
                     "none", NoCookie, <<>>, "", "-"))

\* what indexHandler answers
indexResponse(req) ==
  Response(req, 200, "index", "none", NoCookie, <<>>, "", "-")

indexHandler ==
  /\ Ready
  /\ \E req \in Requests :
    /\ Reaches(req, "index")
    /\ Only(indexResponse(req))

\* a login page that sends every client with a cookie to the index
MutLoginPageRedirectsAnyCookie(req) ==
  IF req.method # "GET"
  THEN Response(req, 405, "loginPage", "none", NoCookie, <<>>, "", "-")
  ELSE IF getSessionToken(req) # EmptyString
  THEN Response(req, 303, "loginPage", "none", NoCookie, <<>>, "/", "-")
  ELSE Response(req, 200, "loginPage", "none", NoCookie, <<>>, "", "-")

\* what loginPageHandler answers: the page, or a redirect to the index for
\* a client whose token validates
loginPageResponse(req) ==
  IF req.method # "GET"
  THEN Response(req, 405, "loginPage", "none", NoCookie, <<>>, "", "-")
  ELSE IF /\ getSessionToken(req) # EmptyString
          /\ validateSessionToken(getSessionToken(req), authToken, now) = "ok"
  THEN Response(req, 303, "loginPage", "none", NoCookie, <<>>, "/", "-")
  ELSE Response(req, 200, "loginPage", "none", NoCookie, <<>>, "", "-")

loginPageHandler ==
  /\ Ready
  /\ \E req \in Requests :
    /\ Reaches(req, "loginPage")
    /\ Only(loginPageResponse(req))

\* the answer to a browser navigation (GET, Accept: text/html) to the index
\* or the login page: the refusal of the gate, or the handler's response
Navigate(path, cookie) ==
  LET req == Get(path, cookie, TRUE)
  IN  IF variant = "stateless" /\ Gate(req).gate \in {"nocookie", "invalid"}
      THEN refusalResponse(req)
      ELSE IF Route(variant, path) = "loginPage" THEN loginPageResponse(req)
      ELSE indexResponse(req)

\* the stateless loginHandler
loginHandler ==
  /\ Ready
  /\ \E req \in Requests :
    /\ variant = "stateless"
    /\ Reaches(req, "login")
    /\ IF req.method # "POST"
       THEN Only(Response(req, 405, "login", "none", NoCookie, <<>>, "", "-"))
       ELSE IF ~req.body.ok \/ req.body.Token = EmptyString
       THEN Only(Response(req, 400, "login", "none", NoCookie, <<>>, "", "-"))
       ELSE IF req.body.Token # authToken
       THEN Only(Response(req, 401, "login", "none", NoCookie, <<>>, "", "-"))
       ELSE /\ logins < MaxLogins
            /\ LET sessionToken == createSessionToken(authToken, now)
               IN  /\ last' = Response(req, 200, "login", "session", sessionToken,
                                       <<>>, "", "-")
                   /\ issued' = issued \cup {[cookie |-> sessionToken, at |-> now]}
            /\ logins' = logins + 1
            /\ UNCHANGED <<BootVars, StoreVars, LockVars, Config, Clock, users, sessions, removers, loggedOut>>

\* the stateless logoutHandler
logoutHandler ==
  /\ Ready
  /\ \E req \in Requests :
    /\ variant = "stateless"
    /\ Reaches(req, "logout")
    /\ IF req.method # "POST"
       THEN Only(Response(req, 405, "logout", "none", NoCookie, <<>>, "", "-"))
       ELSE /\ last' = Response(req, 200, "logout", "clear", NoCookie, <<>>, "", "-")
            /\ loggedOut' = loggedOut \cup ({req.cookie} \cap IssuedCookies)
            /\ UNCHANGED <<BootVars, StoreVars, LockVars, Config, Clock, users, sessions, removers, logins, issued>>

\* the stateful loginHandler, AuthManager.Authenticate included
loginHandlerStateful ==
  /\ Ready
  /\ \E req \in Requests :
    /\ variant = "stateful"
    /\ Reaches(req, "login")
    /\ IF req.method # "POST"
       THEN Only(Response(req, 405, "login", "none", NoCookie, <<>>, "", "-"))
       ELSE IF ~req.body.ok
       THEN Only(Response(req, 400, "login", "none", NoCookie, <<>>, "", "-"))
       ELSE IF ~CredentialsOK(users, req.body.Username, req.body.Password)
       THEN Only(Response(req, 401, "login", "none", NoCookie, <<>>, "", "-"))
       ELSE /\ logins < MaxLogins
            /\ LET sessionID == generateSessionID(logins)
               IN  /\ sessions' = InsertSession(sessions, sessionID,
                                                req.body.Username, now)
                   /\ last' = Response(req, 200, "login", "session", sessionID,
                                       <<>>, "", "-")
                   /\ issued' = issued \cup {[cookie |-> sessionID, at |-> now]}
            /\ users' = [users EXCEPT ![req.body.Username].LastLogin = now]
            /\ logins' = logins + 1
            /\ UNCHANGED <<BootVars, StoreVars, LockVars, Config, Clock, removers, loggedOut>>

\* the stateful logoutHandler, AuthManager.RevokeSession included
logoutHandlerStateful ==
  /\ Ready
  /\ \E req \in Requests :
    /\ variant = "stateful"
    /\ Reaches(req, "logout")
    /\ IF req.method # "POST"
       THEN Only(Response(req, 405, "logout", "none", NoCookie, <<>>, "", "-"))
       ELSE /\ last' = Response(req, 200, "logout", "clear", NoCookie, <<>>, "",
                                IF req.cookie = NoCookie THEN "-"
                                ELSE RevokeSession(sessions, req.cookie))
            /\ sessions' = IF req.cookie = NoCookie THEN sessions
                           ELSE DeleteSession(sessions, req.cookie)
            /\ loggedOut' = loggedOut \cup ({req.cookie} \cap IssuedCookies)
            /\ UNCHANGED <<BootVars, StoreVars, LockVars, Config, Clock, users, removers, logins, issued>>

listHandler ==
  /\ Ready
  /\ \E req \in Requests, backendOK \in BOOLEAN :
    /\ Reaches(req, "list")
    /\ IF req.method # "GET"
       THEN Only(Response(req, 405, "list", "none", NoCookie, <<>>, "", "-"))
       ELSE Only(Response(req, IF backendOK THEN 200 ELSE 500, "list", "none",
                          NoCookie, <<"list">>, "", "-"))

uploadHandler ==
  /\ Ready
  /\ \E req \in Requests, backendOK \in BOOLEAN :
    /\ Reaches(req, "upload")
    /\ IF req.method # "POST"
       THEN Only(Response(req, 405, "upload", "none", NoCookie, <<>>, "", "-"))
       ELSE IF ~req.body.ok
       THEN Only(Response(req, 400, "upload", "none", NoCookie, <<>>, "", "-"))
       ELSE Only(Response(req, IF backendOK THEN 200 ELSE 500, "upload", "none",
                          NoCookie, <<"put">>, "", "-"))

deleteHandler ==
  /\ Ready
  /\ \E req \in Requests, backendOK \in BOOLEAN :
    /\ Reaches(req, "delete")
    /\ IF req.method # "DELETE"
       THEN Only(Response(req, 405, "delete", "none", NoCookie, <<>>, "", "-"))
       ELSE Only(Response(req, IF backendOK THEN 200 ELSE 500, "delete", "none",
                          NoCookie, <<"delete">>, "", "-"))

downloadHandler ==
  /\ Ready
  /\ \E req \in Requests, backendOK \in BOOLEAN :
    /\ Reaches(req, "download")
    /\ IF req.method # "GET"
       THEN Only(Response(req, 405, "download", "none", NoCookie, <<>>, "", "-"))
       ELSE IF ~backendOK
       THEN Only(Response(req, 404, "download", "none", NoCookie, <<"get">>, "", "-"))
       ELSE Only(Response(req, 200, "download", "none", NoCookie,
                          <<"get", "getinfo">>, "", "-"))

\* ------------------------------------------- AuthManager background work
\* the goroutine ValidateSession spawned
removeExpiredSession ==
  /\ Ready
  /\ \E sessionID \in removers :
    /\ sessions' = DeleteSession(sessions, sessionID)
    /\ removers' = removers \ {sessionID}
    /\ UNCHANGED <<BootVars, StoreVars, LockVars, Config, Clock, users, logins, issued, loggedOut, last>>

\* a run of CleanupExpiredSessions
Sweep ==
  /\ Ready
  /\ variant = "stateful"
  /\ sessions' = CleanupExpiredSessions(sessions, now)
  /\ last' = [Idle EXCEPT !.handler = "sweep", !.status = 1, !.at = now]
  /\ UNCHANGED <<BootVars, StoreVars, LockVars, Config, Clock, users, removers, logins, issued, loggedOut>>

\* the response has been written: ServeHTTP returns
finish ==
  /\ ~Ready
  /\ last' = Idle
  /\ UNCHANGED <<BootVars, StoreVars, LockVars, Config, Clock, users, sessions, removers, logins, issued, loggedOut>>

Next ==
  \/ Tick
  \/ finish
  \/ corsMiddleware
  \/ authMiddlewareRefuse
  \/ authMiddlewareStatefulRefuse
  \/ muxRedirect
  \/ staticHandler
  \/ indexHandler
  \/ loginPageHandler
  \/ loginHandler
  \/ logoutHandler
  \/ loginHandlerStateful
  \/ logoutHandlerStateful
  \/ listHandler
  \/ uploadHandler
  \/ deleteHandler
  \/ downloadHandler
  \/ removeExpiredSession
  \/ Sweep

Spec == Init /\ [][Next]_vars

\* ====================================================== goroutine level
\* The AuthManager with its RWMutex: every method is split at the lock
\* operations.  pc of a goroutine: "idle" (outside), "Lock" (about to call
\* mutex.Lock), "LockWait" (write lock announced, waiting for the readers to
\* leave), "RLock" (about to call mutex.RLock), "body" (inside the critical
\* section), "Unlock" / "RUnlock" (the deferred unlock, then the return).

AuthOps == {"Authenticate", "ValidateSession", "RevokeSession",
            "CleanupExpiredSessions"}

\* the lowest spawn slot not in use
FreeSlot(ps) ==
  CHOOSE g \in Threads \ Callers :
    ps[g].pc = "idle" /\ \A h \in Threads \ Callers : ps[h].pc = "idle" => g <= h

\* a ValidateSession that forgets to schedule the removal
MutSpawnNothing(ps, sessionID) == ps

\* go am.removeExpiredSession(sessionID)
SpawnRemoval(ps, sessionID) ==
  [ps EXCEPT ![FreeSlot(ps)] =
     [pc |-> "Lock", op |-> "removeExpiredSession", id |-> sessionID, ret |-> "-"]]

LockInit ==
  /\ variant = "stateful"
  /\ authEnabled = TRUE
  /\ authToken = EmptyString
  /\ users = InitialUsers
  /\ sessions = <<>>
  /\ removers = {}
  /\ now = StartSeconds * TicksPerSecond
  /\ jumps = 0
  /\ logins = 0
  /\ issued = {}
  /\ loggedOut = {}
  /\ last = Idle
  /\ mu = Unlocked
  /\ procs = [t \in Threads |-> Parked]
  /\ ops = 0
  /\ bucket = <<>>
  /\ inflight = {}
  /\ log = <<>>
  /\ reply = NoReply
  /\ disk = NoFile
  /\ boot = NoMain
  /\ journal = {}

HttpVars == <<Config, removers, loggedOut, last, StoreVars, BootVars>>

\* the clock moves on, by a tick or by a whole session lifetime
LockTick ==
  /\ jumps < MaxJumps
  /\ \E d \in {1, DurationTicks("stateful")} : now' = now + d
  /\ jumps' = jumps + 1
  /\ UNCHANGED <<HttpVars, LockVars, users, sessions, logins, issued>>

\* a caller enters a method of the AuthManager; Authenticate is called with
\* alice's first password or a guess
Call(t) ==
  /\ t \in Callers
  /\ procs[t].pc = "idle"
  /\ ops < MaxOps
  /\ \E op \in AuthOps, id \in SessionIdChoices \cup {<< <<1>> >>, << <<0>> >>} :
       /\ op = "Authenticate" => id \in {<< <<1>> >>, << <<0>> >>}
       /\ op = "Authenticate" /\ id = << <<1>> >> => logins < MaxLogins
       /\ op \in {"ValidateSession", "RevokeSession"}
            => id \in IssuedCookies \cup {generateSessionID(255)}
       /\ op = "CleanupExpiredSessions" => id = EmptyString
       /\ procs' = [procs EXCEPT ![t] =
            [pc |-> IF op = "ValidateSession" THEN "RLock" ELSE "Lock",
             op |-> op, id |-> id, ret |-> "-"]]
  /\ ops' = ops + 1
  /\ UNCHANGED <<HttpVars, Clock, users, sessions, logins, issued, mu>>

\* mutex.Lock, first half: take the writer slot, which keeps new readers out
Lock(t) ==
  /\ procs[t].pc = "Lock"
  /\ mu.w = 0
  /\ mu' = [mu EXCEPT !.w = t]
  /\ procs' = [procs EXCEPT ![t].pc = "LockWait"]
  /\ UNCHANGED <<HttpVars, Clock, users, sessions, logins, issued, ops>>

\* a write lock that does not wait for the readers to leave
MutLockAcquiredEarly(t) ==
  /\ procs[t].pc = "LockWait"
  /\ procs' = [procs EXCEPT ![t].pc = "body"]
  /\ UNCHANGED <<HttpVars, Clock, users, sessions, logins, issued, ops, mu>>

\* mutex.Lock, second half: the readers have left
LockAcquired(t) ==
  /\ procs[t].pc = "LockWait"
  /\ mu.readers = {}
  /\ procs' = [procs EXCEPT ![t].pc = "body"]
  /\ UNCHANGED <<HttpVars, Clock, users, sessions, logins, issued, ops, mu>>

\* mutex.RLock: blocked while a writer holds or awaits the lock
RLock(t) ==
  /\ procs[t].pc = "RLock"
  /\ mu.w = 0
  /\ mu' = [mu EXCEPT !.readers = @ \cup {t}]
  /\ procs' = [procs EXCEPT ![t].pc = "body"]
  /\ UNCHANGED <<HttpVars, Clock, users, sessions, logins, issued, ops>>

\* the body of Authenticate, under the write lock
AuthenticateBody(t) ==
  /\ procs[t].pc = "body" /\ procs[t].op = "Authenticate"
  /\ LET password == IF procs[t].id = << <<1>> >> THEN "correct horse" ELSE "guess"
     IN  IF CredentialsOK(users, "alice", password)
         THEN LET sessionID == generateSessionID(logins)
              IN  /\ sessions' = InsertSession(sessions, sessionID, "alice", now)
                  /\ users' = [users EXCEPT !["alice"].LastLogin = now]
                  /\ issued' = issued \cup {[cookie |-> sessionID, at |-> now]}
                  /\ logins' = logins + 1
                  /\ procs' = [procs EXCEPT ![t].pc = "Unlock", ![t].ret = "ok"]
         ELSE /\ procs' = [procs EXCEPT ![t].pc = "Unlock",
                                        ![t].ret = "invalid username or password"]
              /\ UNCHANGED <<users, sessions, logins, issued>>
  /\ UNCHANGED <<HttpVars, Clock, ops, mu>>

\* the body of ValidateSession, under the read lock
ValidateSessionBody(t) ==
  /\ procs[t].pc = "body" /\ procs[t].op = "ValidateSession"
  /\ LET v == ValidateSession(sessions, procs[t].id, now)
         returning == [procs EXCEPT ![t].pc = "RUnlock", ![t].ret = v.err]
     IN  procs' = IF v.err = "session expired"
                  THEN SpawnRemoval(returning, procs[t].id)
                  ELSE returning
  /\ UNCHANGED <<HttpVars, Clock, users, sessions, logins, issued, ops, mu>>

\* the body of RevokeSession, under the write lock
RevokeSessionBody(t) ==
  /\ procs[t].pc = "body" /\ procs[t].op = "RevokeSession"
  /\ procs' = [procs EXCEPT ![t].pc = "Unlock",
                            ![t].ret = RevokeSession(sessions, procs[t].id)]
  /\ sessions' = DeleteSession(sessions, procs[t].id)
  /\ loggedOut' = loggedOut \cup ({procs[t].id} \cap IssuedCookies)
  /\ UNCHANGED <<BootVars, StoreVars, Config, removers, last, Clock, users, logins, issued, ops, mu>>

\* the body of CleanupExpiredSessions, under the write lock
CleanupExpiredSessionsBody(t) ==
  /\ procs[t].pc = "body" /\ procs[t].op = "CleanupExpiredSessions"
  /\ procs' = [procs EXCEPT ![t].pc = "Unlock", ![t].ret = "ok"]
  /\ sessions' = CleanupExpiredSessions(sessions, now)
  /\ UNCHANGED <<HttpVars, Clock, users, logins, issued, ops, mu>>

\* the body of removeExpiredSession, under the write lock
removeExpiredSessionBody(t) ==
  /\ procs[t].pc = "body" /\ procs[t].op = "removeExpiredSession"
  /\ procs' = [procs EXCEPT ![t].pc = "Unlock"]
  /\ sessions' = DeleteSession(sessions, procs[t].id)
  /\ UNCHANGED <<HttpVars, Clock, users, logins, issued, ops, mu>>

\* defer mutex.Unlock and the return; a spawned goroutine ends
Unlock(t) ==
  /\ procs[t].pc = "Unlock"
  /\ mu' = [mu EXCEPT !.w = 0]
  /\ procs' = [procs EXCEPT ![t] = IF t \in Callers
                                   THEN [procs[t] EXCEPT !.pc = "idle"]
                                   ELSE Parked]
  /\ UNCHANGED <<HttpVars, Clock, users, sessions, logins, issued, ops>>

\* defer mutex.RUnlock and the return
RUnlock(t) ==
  /\ procs[t].pc = "RUnlock"
  /\ mu' = [mu EXCEPT !.readers = @ \ {t}]
  /\ procs' = [procs EXCEPT ![t].pc = "idle"]
  /\ UNCHANGED <<HttpVars, Clock, users, sessions, logins, issued, ops>>

\* a step of goroutine t inside the AuthManager
Proceed(t) ==
  \/ Lock(t)
  \/ LockAcquired(t)
  \/ RLock(t)
  \/ AuthenticateBody(t)
  \/ ValidateSessionBody(t)
  \/ RevokeSessionBody(t)
  \/ CleanupExpiredSessionsBody(t)
  \/ removeExpiredSessionBody(t)
  \/ Unlock(t)
  \/ RUnlock(t)

LockNext ==
  \/ LockTick
  \/ \E t \in Threads : Call(t)
  \/ \E t \in Threads : Proceed(t)

LockSpec == LockInit /\ [][LockNext]_vars

\* the Go scheduler runs every runnable goroutine, and sync.Mutex hands the
\* lock to a goroutine that keeps waiting for it (starvation mode)
LockFairSpec ==
  /\ LockSpec
  /\ \A t \in Threads : WF_vars(Proceed(t)) /\ SF_vars(Lock(t))

\* ---------------------------------------------------- credential methods
\* The goroutine-level view with the methods that change the users as well.

\* a caller enters ChangePassword, for alice with her first password and a
\* new one that is long enough (1) or too short (0), or SetUsers, with bob
\* alone (1) or with no user (0)
CallCredential(t) ==
  /\ t \in Callers
  /\ procs[t].pc = "idle"
  /\ ops < MaxOps
  /\ \E op \in {"ChangePassword", "SetUsers"}, id \in {<< <<1>> >>, << <<0>> >>} :
       procs' = [procs EXCEPT ![t] =
                   [pc |-> "Lock", op |-> op, id |-> id, ret |-> "-"]]
  /\ ops' = ops + 1
  /\ UNCHANGED <<HttpVars, Clock, users, sessions, logins, issued, mu>>

\* the body of ChangePassword, under the write lock
ChangePasswordBody(t) ==
  /\ procs[t].pc = "body" /\ procs[t].op = "ChangePassword"
  /\ LET newPassword == IF procs[t].id = << <<1>> >> THEN "battery staple"
                        ELSE "staple"
         r == ChangePassword(users, "alice", "correct horse", newPassword)
     IN  /\ users' = r.users
         /\ procs' = [procs EXCEPT ![t].pc = "Unlock", ![t].ret = r.err]
  /\ UNCHANGED <<HttpVars, Clock, sessions, logins, issued, ops, mu>>

\* the body of SetUsers, under the write lock
SetUsersBody(t) ==
  /\ procs[t].pc = "body" /\ procs[t].op = "SetUsers"
  /\ users' = SetUsers(users, IF procs[t].id = << <<1>> >> THEN OnlyBob ELSE <<>>)
  /\ procs' = [procs EXCEPT ![t].pc = "Unlock", ![t].ret = "ok"]
  /\ UNCHANGED <<HttpVars, Clock, sessions, logins, issued, ops, mu>>

CredNext ==
  \/ LockNext
  \/ \E t \in Threads : CallCredential(t)
  \/ \E t \in Threads : ChangePasswordBody(t)
  \/ \E t \in Threads : SetUsersBody(t)

CredSpec == LockInit /\ [][CredNext]_vars

\* ======================================================= object gateway
\* The handlers against the object store.  A string is the sequence of its
\* characters (code points): "/" is 47, "." 46, "_" 95, "-" 45, " " 32.

\* ------------------------------------------------------- key addressing
UnnamedFile == <<117, 110, 110, 97, 109, 101, 100, 95, 102, 105, 108, 101>>
TextTxt == <<116, 101, 120, 116, 46, 116, 120, 116>>
UrlTxt == <<117, 114, 108, 46, 116, 120, 116>>

RECURSIVE StripTrailingSlashes(_)
\* filepath.Base, first loop: the trailing separators go
StripTrailingSlashes(path) ==
  IF Len(path) > 0 /\ path[Len(path)] = 47
  THEN StripTrailingSlashes(SubSeq(path, 1, Len(path) - 1))
  ELSE path

\* filepath.Base: "." for the empty path, "/" for a path of separators only,
\* else what follows the last separator once the trailing ones are gone
Base(path) ==
  IF path = <<>> THEN <<46>>
  ELSE LET p == StripTrailingSlashes(path)
           slashes == {i \in 1..Len(p) : p[i] = 47}
           i == IF slashes = {} THEN 0
                ELSE CHOOSE k \in slashes : \A j \in slashes : j <= k
           q == SubSeq(p, i + 1, Len(p))
       IN  IF q = <<>> THEN <<47>> ELSE q

\* the characters sanitizeFilename keeps: a-z, A-Z, 0-9, '.', '-', '_'
KeptRune(r) ==
  \/ r \in 97..122
  \/ r \in 65..90
  \/ r \in 48..57
  \/ r \in {46, 45, 95}

\* a sanitizeFilename that keeps the directories of the name
MutSanitizeKeepsPath(filename) ==
  LET cleaned == [i \in 1..Len(filename) |->
                    IF KeptRune(filename[i]) \/ filename[i] = 47
                    THEN filename[i] ELSE 95]
  IN  IF cleaned = <<>> \/ cleaned = <<46>> THEN UnnamedFile ELSE cleaned

sanitizeFilename(filename) ==
  LET base == Base(filename)
      cleaned == [i \in 1..Len(base) |-> IF KeptRune(base[i]) THEN base[i] ELSE 95]
  IN  IF cleaned = <<>> \/ cleaned = <<46>> THEN UnnamedFile ELSE cleaned

\* multipart.Part.FileName as r.FormFile sees it: the Content-Disposition
\* filename passed through filepath.Base unless it is empty
FileName(raw) == IF raw = <<>> THEN <<>> ELSE Base(raw)

\* the filename the upload handler works with: header.Filename, or a default
\* by content type when that is empty
UploadFilename(headerFilename, contentType) ==
  IF headerFilename # <<>> THEN headerFilename
  ELSE CASE contentType = "text" -> TextTxt
         [] contentType = "url" -> UrlTxt
         [] OTHER -> UnnamedFile

\* a key without the time prefix
MutKeyWithoutTime(filename, t) == sanitizeFilename(filename)

\* fmt.Sprintf("%d_%s", time.Now().Unix(), sanitizeFilename(filename))
UploadKey(filename, t) ==
  Digits(Unix(t)) \o <<95>> \o sanitizeFilename(filename)

\* strings.TrimPrefix
TrimPrefix(s, prefix) ==
  IF Len(s) >= Len(prefix) /\ SubSeq(s, 1, Len(prefix)) = prefix
  THEN SubSeq(s, Len(prefix) + 1, Len(s))
  ELSE s

\* white space as strings.TrimSpace sees it: tab, newline, vertical tab, form
\* feed, carriage return, space
IsSpace(r) == r \in {9, 10, 11, 12, 13, 32}

RECURSIVE TrimSpace(_)
TrimSpace(s) ==
  IF s = <<>> THEN s
  ELSE IF IsSpace(s[1]) THEN TrimSpace(Tail(s))
  ELSE IF IsSpace(s[Len(s)]) THEN TrimSpace(SubSeq(s, 1, Len(s) - 1))
  ELSE s

\* "/api/delete/" and "/api/download/", the subtrees the mux routes to the
\* delete and download handlers
ApiDeletePath == <<47, 97, 112, 105, 47, 100, 101, 108, 101, 116, 101, 47>>
ApiDownloadPath ==
  <<47, 97, 112, 105, 47, 100, 111, 119, 110, 108, 111, 97, 100, 47>>

\* the prefix the delete handler trims: "/delete/" in the stateless server,
\* "/api/delete/" in the stateful one
DeletePrefix(v) ==
  IF v = "stateless" THEN SubSeq(ApiDeletePath, 5, 12) ELSE ApiDeletePath

\* the prefix the download handler trims: "/download/" or "/api/download/"
DownloadPrefix(v) ==
  IF v = "stateless" THEN SubSeq(ApiDownloadPath, 5, 14) ELSE ApiDownloadPath

\* the key the delete and download handlers pass on
KeyOfPath(path, prefix) == TrimSpace(TrimPrefix(path, prefix))

\* ------------------------------------------------------ the bucket
\* The bucket of the NATS object store maps a name to an object; a deleted
\* object leaves a marker behind.

\* the objects that can be read and listed
Live(bkt) == {k \in DOMAIN bkt : ~bkt[k].deleted}

\* bucket.Put(&nats.ObjectMeta{Name: key}, reader): the object stored under
\* the name, in place of what was there
Put(bkt, key, data, size) ==
  [k \in DOMAIN bkt \cup {key} |->
     IF k = key THEN [data |-> data, size |-> size, deleted |-> FALSE] ELSE bkt[k]]

\* bucket.GetBytes(key)
GetBytes(bkt, key) ==
  IF key \in Live(bkt) THEN [err |-> "nil", data |-> bkt[key].data]
  ELSE [err |-> "object not found", data |-> "-"]

\* bucket.GetInfo(key)
GetInfo(bkt, key) ==
  IF key \in Live(bkt) THEN [err |-> "nil", size |-> bkt[key].size]
  ELSE [err |-> "object not found", size |-> 0]

\* what bucket.Delete(key) can return: an error for a name the bucket never
\* held, nil or a failure of the backend for a live object, and for an
\* object deleted before either nil or an error, as the backend has it
DeleteResults(bkt, key) ==
  IF key \in Live(bkt) THEN {"nil", "backend failure"}
  ELSE IF key \in DOMAIN bkt THEN {"nil", "object not found"}
  ELSE {"object not found"}

\* the bucket after bucket.Delete(key) returned err
Deleted(bkt, key, err) ==
  IF err = "nil" THEN [bkt EXCEPT ![key].deleted = TRUE] ELSE bkt

\* ObjectStore.ListKeys: an empty list and no error, whatever the bucket holds
ListKeys(bkt) == [keys |-> <<>>, err |-> "nil"]

\* ListObjectsForAPI: the live objects, by name
ListObjectsForAPI(bkt) == Live(bkt)

\* ----------------------------------------------------------- requests
\* an upper bound on the uploads started
MaxUploads == 2

\* const maxMemory = 32 << 20, in MiB
MaxMemory == 32

\* a parser of the form that takes a body the client cut short
MutParseTakesCutBody(form, maxMemory) ==
  [err |-> IF form.ok THEN "nil" ELSE "not multipart",
   onDisk |-> form.ok /\ form.size > maxMemory]

\* r.ParseMultipartForm(maxMemory): the whole body is read; an error for a
\* body that is no multipart form or that ends before its closing boundary
\* (the client went away); a file part is kept in memory up to maxMemory
\* bytes and in a temporary file beyond, whatever its size
ParseMultipartForm(form, maxMemory) ==
  [err |-> IF ~form.ok THEN "not multipart"
           ELSE IF form.cut THEN "unexpected EOF" ELSE "nil",
   onDisk |-> form.ok /\ ~form.cut /\ form.size > maxMemory]

\* the payloads uploaded: a content and its size in MiB
Payloads == { [data |-> "c1", size |-> 1], [data |-> "c2", size |-> 40] }

\* the Content-Disposition filenames uploaded: "a", "../a", "a b", "a_b"
UploadNames ==
  { <<97>>, <<46, 46, 47, 97>>, <<97, 32, 98>>, <<97, 95, 98>> }

\* multipart forms: one that does not parse, one without a file part (or with
\* an empty filename, which makes the part a plain value), the uploads, and
\* uploads of "a" whose client disconnects before the body is complete (cut)
UploadForms ==
  { [ok |-> FALSE, filename |-> <<>>, type |-> "", data |-> "-", size |-> 0,
     cut |-> FALSE],
    [ok |-> TRUE, filename |-> <<>>, type |-> "text", data |-> "c1", size |-> 1,
     cut |-> FALSE] }
  \cup
  { [ok |-> TRUE, filename |-> f, type |-> "", data |-> p.data, size |-> p.size,
     cut |-> FALSE] :
      f \in UploadNames, p \in Payloads }
  \cup
  { [ok |-> TRUE, filename |-> <<97>>, type |-> "", data |-> p.data,
     size |-> p.size, cut |-> TRUE] : p \in Payloads }

\* what follows "/api/delete/" or "/api/download/" in the request path: a
\* name of the bucket, nothing, a blank, "a b"
KeyChoices ==
  DOMAIN bucket \cup { <<>>, <<32>>, <<97, 32, 98>> }

\* ---------------------------------------------------------- responses
\* the response to a request that left the bucket alone; writes: the statuses
\* the handler wrote to the ResponseWriter, in order; err: the error the
\* handler logged for a form it could not parse
Reply(handler, status, key, data, size, entries) ==
  [handler |-> handler, status |-> status, key |-> key, data |-> data,
   size |-> size, entries |-> entries, writes |-> <<status>>, err |-> "-"]

\* a finished upload: the request, the key handed to the backend, the second
\* the key was made in, what PutReader returned, and the response
Entry(n, filename, data, size, key, sec, err, status, body) ==
  [n |-> n, filename |-> filename, data |-> data, size |-> size,
   key |-> key, sec |-> sec, err |-> err, status |-> status, body |-> body]

NoUploadBody == [Status |-> "error", Key |-> <<>>, Size |-> 0, Filename |-> <<>>]

\* an upload handler that reports success whatever the put returned
MutUploadResponseAlwaysOK(u, putOK) ==
  [status |-> 200,
   body |-> [Status |-> "success", Key |-> u.key, Size |-> u.size,
             Filename |-> u.filename]]

\* the end of the upload handler: 500 and an error body when PutReader
\* failed, else 200 with the key, the size and the filename
UploadResponse(u, putOK) ==
  IF putOK
  THEN [status |-> 200,
        body |-> [Status |-> "success", Key |-> u.key, Size |-> u.size,
                  Filename |-> u.filename]]
  ELSE [status |-> 500, body |-> NoUploadBody]

GateVars ==
  <<Config, users, sessions, removers, logins, issued, loggedOut, last, mu, procs,
    BootVars>>

\* only a response is written
ReplyOnly(r) ==
  /\ reply' = r
  /\ UNCHANGED <<GateVars, Clock, ops, bucket, inflight, log>>

StoreInit ==
  /\ variant \in {"stateless", "stateful"}
  /\ authEnabled = TRUE
  /\ authToken \in (IF variant = "stateless" THEN {CHOOSE k \in Secrets : TRUE}
                    ELSE {EmptyString})
  /\ users = (IF variant = "stateful" THEN InitialUsers ELSE <<>>)
  /\ sessions = <<>>
  /\ removers = {}
  /\ now = StartSeconds * TicksPerSecond
  /\ jumps = 0
  /\ logins = 0
  /\ issued = {}
  /\ loggedOut = {}
  /\ last = Idle
  /\ mu = Unlocked
  /\ procs = [t \in Threads |-> Parked]
  /\ ops = 0
  /\ bucket = <<>>
  /\ inflight = {}
  /\ log = <<>>
  /\ reply = NoReply
  /\ disk = NoFile
  /\ boot = NoMain
  /\ journal = {}

\* the clock moves on
StoreTick ==
  /\ jumps < MaxJumps
  /\ now' = now + 1
  /\ jumps' = jumps + 1
  /\ reply' = NoReply
  /\ UNCHANGED <<GateVars, ops, bucket, inflight, log>>

\* uploadHandler up to the construction of the key: the method check, the
\* parsing of the form (no size is refused), the file part, the filename, the key
Upload ==
  \E method \in {"POST", "GET"}, form \in UploadForms :
    IF method # "POST"
    THEN ReplyOnly(Reply("upload", 405, <<>>, "-", 0, {}))
    ELSE IF ParseMultipartForm(form, MaxMemory).err # "nil"
    THEN ReplyOnly([Reply("upload", 400, <<>>, "-", 0, {})
                      EXCEPT !.err = ParseMultipartForm(form, MaxMemory).err])
    ELSE IF FileName(form.filename) = <<>>
    THEN ReplyOnly(Reply("upload", 400, <<>>, "-", 0, {}))
    ELSE LET filename == UploadFilename(FileName(form.filename), form.type)
         IN  /\ ops < MaxUploads
             /\ inflight' = inflight \cup
                  { [n |-> ops, raw |-> form.filename, filename |-> filename,
                     data |-> form.data, size |-> form.size, cut |-> form.cut,
                     key |-> UploadKey(filename, now), sec |-> Unix(now)] }
             /\ ops' = ops + 1
             /\ reply' = NoReply
             /\ UNCHANGED <<GateVars, Clock, bucket, log>>

\* the rest of uploadHandler: ObjectStore.PutReader and the response
PutReader ==
  \E u \in inflight, putOK \in BOOLEAN :
    /\ inflight' = inflight \ {u}
    /\ bucket' = IF putOK THEN Put(bucket, u.key, u.data, u.size) ELSE bucket
    /\ LET r == UploadResponse(u, putOK)
       IN  log' = Append(log, Entry(u.n, u.raw, u.data, u.size, u.key,
                                    u.sec, IF putOK THEN "nil" ELSE "put failed",
                                    r.status, r.body))
    /\ reply' = NoReply
    /\ UNCHANGED <<GateVars, Clock, ops>>

\* the key deleteHandler passes on for the request path "/api/delete/" + rest
DeleteKey(v, rest) == KeyOfPath(ApiDeletePath \o rest, DeletePrefix(v))

\* deleteHandler: the method check, the key from the path, ObjectStore.Delete
Delete ==
  \E method \in {"DELETE", "GET"}, rest \in KeyChoices :
    LET path == TrimPrefix(ApiDeletePath \o rest, DeletePrefix(variant))
        key == DeleteKey(variant, rest)
    IN  IF method # "DELETE"
        THEN ReplyOnly(Reply("delete", 405, <<>>, "-", 0, {}))
        ELSE IF path = <<>>
        THEN ReplyOnly(Reply("delete", 400, <<>>, "-", 0, {}))
        ELSE \E err \in DeleteResults(bucket, key) :
               /\ bucket' = Deleted(bucket, key, err)
               /\ reply' = Reply("delete", IF err = "nil" THEN 200 ELSE 500,
                                 key, "-", 0, {})
               /\ UNCHANGED <<GateVars, Clock, ops, inflight, log>>

\* downloadHandler: the method check, the key from the path, ObjectStore.Get
\* and GetInfo, the object as the body with the key as its file name (the
\* response carries no other name)
DownloadResponse(v, bkt, method, rest) ==
  LET path == TrimPrefix(ApiDownloadPath \o rest, DownloadPrefix(v))
      key == KeyOfPath(ApiDownloadPath \o rest, DownloadPrefix(v))
      got == GetBytes(bkt, key)
  IN  IF method # "GET" THEN Reply("download", 405, <<>>, "-", 0, {})
      ELSE IF path = <<>> THEN Reply("download", 400, <<>>, "-", 0, {})
      ELSE IF got.err # "nil" THEN Reply("download", 404, key, "-", 0, {})
      ELSE Reply("download", 200, key, got.data, GetInfo(bkt, key).size, {})

\* the request is served; when w.Write fails after the 200 response was
\* started (the client is gone), the handler goes on to http.Error with 500
Download ==
  \E method \in {"GET", "POST"}, rest \in KeyChoices, writeOK \in BOOLEAN :
    LET r == DownloadResponse(variant, bucket, method, rest)
    IN  IF r.status = 200 /\ ~writeOK
        THEN ReplyOnly([r EXCEPT !.writes = <<200, 500>>])
        ELSE ReplyOnly(r)

\* listHandler: ObjectStore.ListObjectsForAPI, or 500 when it fails
List ==
  \E listOK \in BOOLEAN :
    IF listOK
    THEN ReplyOnly(Reply("list", 200, <<>>, "-", 0, ListObjectsForAPI(bucket)))
    ELSE ReplyOnly(Reply("list", 500, <<>>, "-", 0, {}))

StoreNext ==
  \/ StoreTick
  \/ Upload
  \/ PutReader
  \/ Delete
  \/ Download
  \/ List

StoreSpec == StoreInit /\ [][StoreNext]_vars

\* ==================================================== JavaScript server
\* HTTPServer of the Bun implementation: handleUpload and its sanitizeFilename.

\* the characters the class [^a-zA-Z0-9.-_] leaves alone: letters, digits and
\* the range from '.' to '_' (which holds '/', ':', '@', '\', but not '-')
jsKept(c) ==
  \/ c \in 97..122
  \/ c \in 65..90
  \/ c \in 48..57
  \/ c \in 46..95

RECURSIVE jsCollapse(_)
\* replace(/_{2,}/g, '_')
jsCollapse(str) ==
  IF Len(str) < 2 THEN str
  ELSE IF str[1] = 95 /\ str[2] = 95 THEN jsCollapse(Tail(str))
  ELSE <<str[1]>> \o jsCollapse(Tail(str))

RECURSIVE jsTrim(_)
\* replace(/^_+|_+$/g, '')
jsTrim(str) ==
  IF str = <<>> THEN str
  ELSE IF str[1] = 95 THEN jsTrim(Tail(str))
  ELSE IF str[Len(str)] = 95 THEN jsTrim(SubSeq(str, 1, Len(str) - 1))
  ELSE str

\* HTTPServer.sanitizeFilename
jsSanitizeFilename(filename) ==
  LET replaced == [i \in 1..Len(filename) |->
                     IF jsKept(filename[i]) THEN filename[i] ELSE 95]
      cleaned == jsTrim(jsCollapse(replaced))
  IN  IF cleaned = <<>> THEN UnnamedFile ELSE cleaned

\* Date.now(): milliseconds of a clock reading
DateNow(t) == (t * 1000) \div TicksPerSecond

\* the names of the uploaded file: "", "a", "../a", "a\b", "a-b", "a b", "__",
\* "a:b"
JsNames ==
  { <<>>, <<97>>, <<46, 46, 47, 97>>, <<97, 92, 98>>, <<97, 45, 98>>,
    <<97, 32, 98>>, <<95, 95>>, <<97, 58, 98>> }

JsInit ==
  /\ variant = "js"
  /\ authEnabled = FALSE
  /\ authToken = EmptyString
  /\ users = <<>>
  /\ sessions = <<>>
  /\ removers = {}
  /\ now = StartSeconds * TicksPerSecond
  /\ jumps = 0
  /\ logins = 0
  /\ issued = {}
  /\ loggedOut = {}
  /\ last = Idle
  /\ mu = Unlocked
  /\ procs = [t \in Threads |-> Parked]
  /\ ops = 0
  /\ bucket = <<>>
  /\ inflight = {}
  /\ log = <<>>
  /\ reply = NoReply
  /\ disk = NoFile
  /\ boot = NoMain
  /\ journal = {}

\* the clock moves on
JsTick ==
  /\ jumps < MaxJumps
  /\ now' = now + 1
  /\ jumps' = jumps + 1
  /\ reply' = NoReply
  /\ UNCHANGED <<GateVars, ops, bucket, inflight, log>>

\* HTTPServer.handleUpload: 400 without a file or a file name, else the key
\* from Date.now() and sanitizeFilename, the put, and 200, or 500 when the
\* put throws
handleUpload ==
  \E name \in JsNames, p \in Payloads, putOK \in BOOLEAN :
    IF name = <<>>
    THEN ReplyOnly(Reply("upload", 400, <<>>, "-", 0, {}))
    ELSE LET timestamp == DateNow(now)
             key == Digits(timestamp) \o <<95>> \o jsSanitizeFilename(name)
         IN  /\ ops < MaxUploads
             /\ ops' = ops + 1
             /\ bucket' = IF putOK THEN Put(bucket, key, p.data, p.size) ELSE bucket
             /\ log' = Append(log,
                  Entry(ops, name, p.data, p.size, key, timestamp,
                        IF putOK THEN "nil" ELSE "put failed",
                        IF putOK THEN 200 ELSE 500,
                        IF putOK
                        THEN [Status |-> "success", Key |-> key, Size |-> p.size,
                              Filename |-> name]
                        ELSE NoUploadBody))
             /\ reply' = NoReply
             /\ UNCHANGED <<GateVars, Clock, inflight>>

JsNext ==
  \/ JsTick
  \/ handleUpload

JsSpec == JsInit /\ [][JsNext]_vars

\* ============================================================= start-up
\* main from its first line to the signal that stops it, the user-admin tool
\* and AuthManager.CreateUser.  pc of main: the call it is about to make, then
\* "serving", "stopped", or "fatal" after log.Fatalf.

\* passwords: "", "pass123", "pass1234", "pass12345"
Pass7 == <<112, 97, 115, 115, 49, 50, 51>>
Pass8 == Pass7 \o <<52>>
Pass9 == Pass8 \o <<53>>
Passwords == {<<>>, Pass7, Pass8, Pass9}

\* a NATS token found in the file, and the one GenerateToken draws
NatsTokens == {"nats-old"}
NewNatsToken == "nats-new"

\* DefaultConfig
DefaultConfig == [exists |-> TRUE, nats |-> "", http |-> EmptyString, users |-> <<>>]

\* the file after SaveConfig returned err for the configuration cfg: written
\* on nil, left alone when the file could not be opened, cut to nothing when
\* the encoding failed after the truncating open
SaveConfig(file, cfg, err) ==
  CASE err = "nil" ->
         [exists |-> TRUE, nats |-> cfg.nats, http |-> cfg.http, users |-> cfg.users]
    [] err = "open failed" -> file
    [] OTHER -> DefaultConfig

SaveErrors == {"nil", "open failed", "encode failed"}

\* a line of the log: where it is written, and the HTTP authentication token
\* and the NATS token it prints (EmptyString and "" for none)
Line(src, http, nats) == [src |-> src, http |-> http, nats |-> nats]

\* a line that prints no token
Note(src) == Line(src, EmptyString, "")

\* main moves on with the given fields of boot changed
Main(pc, natsToken, httpToken, us) ==
  boot' = [pc |-> pc, nats |-> natsToken, http |-> httpToken, users |-> us]

\* what no step of the start-up view touches
BootFrame ==
  <<variant, authEnabled, sessions, removers, Clock, logins, issued, loggedOut,
    last, LockVars, StoreVars>>

BootInit ==
  /\ variant = "stateless"
  /\ authEnabled = TRUE
  /\ authToken = EmptyString
  /\ users = <<>>
  /\ sessions = <<>>
  /\ removers = {}
  /\ now = StartSeconds * TicksPerSecond
  /\ jumps = 0
  /\ logins = 0
  /\ issued = {}
  /\ loggedOut = {}
  /\ last = Idle
  /\ mu = Unlocked
  /\ procs = [t \in Threads |-> Parked]
  /\ ops = 0
  /\ bucket = <<>>
  /\ inflight = {}
  /\ log = <<>>
  /\ reply = NoReply
  /\ disk \in {NoFile}
        \cup { [exists |-> TRUE, nats |-> n, http |-> h, users |-> <<>>] :
                 n \in NatsTokens \cup {""},
                 h \in {EmptyString, CHOOSE k \in Secrets : TRUE} }
  /\ boot = [pc |-> "LoadConfig", nats |-> "", http |-> EmptyString, users |-> <<>>]
  /\ journal = {}

\* config.LoadConfig(""): a missing file is created with the defaults, an
\* existing one is decoded; log.Fatalf on an error
LoadConfig ==
  /\ boot.pc = "LoadConfig"
  /\ IF ~disk.exists
     THEN \E err \in SaveErrors :
            /\ disk' = (IF err = "open failed" THEN disk
                        ELSE SaveConfig(disk, DefaultConfig, err))
            /\ IF err = "nil"
               THEN /\ Main("GenerateToken", "", EmptyString, <<>>)
                    /\ UNCHANGED journal
               ELSE /\ Main("fatal", "", EmptyString, <<>>)
                    /\ journal' = journal \cup {Note("main.go:25")}
     ELSE \E decodeOK \in BOOLEAN :
            /\ UNCHANGED disk
            /\ IF decodeOK
               THEN /\ Main("GenerateToken", disk.nats, disk.http, disk.users)
                    /\ UNCHANGED journal
               ELSE /\ Main("fatal", "", EmptyString, <<>>)
                    /\ journal' = journal \cup {Note("main.go:25")}
  /\ UNCHANGED <<BootFrame, authToken, users>>

\* Config.GenerateToken: the configuration with a fresh NATS token, or the
\* error of the random source
GenerateToken(cfg, randOK) ==
  IF randOK THEN [cfg |-> [cfg EXCEPT !.nats = NewNatsToken], err |-> "nil"]
  ELSE [cfg |-> cfg, err |-> "failed to generate token"]

\* Config.GenerateHTTPToken: the configuration with a fresh HTTP
\* authentication token, or the error of the random source
GenerateHTTPToken(cfg, randOK, token) ==
  IF randOK THEN [cfg |-> [cfg EXCEPT !.http = token], err |-> "nil"]
  ELSE [cfg |-> cfg, err |-> "failed to generate token"]

\* main, lines 28-40: the NATS token is generated when the configuration has
\* none, and saved; a failed save is a warning
MainNatsToken ==
  /\ boot.pc = "GenerateToken"
  /\ IF boot.nats # ""
     THEN /\ Main("GenerateHTTPToken", boot.nats, boot.http, boot.users)
          /\ UNCHANGED <<disk, journal>>
     ELSE \E randOK \in BOOLEAN, err \in SaveErrors :
            LET g == GenerateToken(boot, randOK)
            IN  IF g.err # "nil"
                THEN /\ Main("fatal", boot.nats, boot.http, boot.users)
                     /\ journal' = journal \cup {Note("main.go:31")}
                     /\ UNCHANGED disk
                ELSE /\ Main("GenerateHTTPToken", g.cfg.nats, g.cfg.http, g.cfg.users)
                     /\ disk' = SaveConfig(disk, g.cfg, err)
                     /\ journal' = journal \cup
                          {Note(IF err = "nil" THEN "main.go:38" ELSE "main.go:36")}
  /\ UNCHANGED <<BootFrame, authToken, users>>

\* main, lines 42-54: the HTTP authentication token is generated when the
\* configuration has none, and saved; a failed save is a warning
MainHTTPToken ==
  /\ boot.pc = "GenerateHTTPToken"
  /\ IF boot.http # EmptyString
     THEN /\ Main("NewServer", boot.nats, boot.http, boot.users)
          /\ UNCHANGED <<disk, journal>>
     ELSE \E randOK \in BOOLEAN, err \in SaveErrors, token \in Secrets :
            LET g == GenerateHTTPToken(boot, randOK, token)
            IN  IF g.err # "nil"
                THEN /\ Main("fatal", boot.nats, boot.http, boot.users)
                     /\ journal' = journal \cup {Note("main.go:45")}
                     /\ UNCHANGED disk
                ELSE /\ Main("NewServer", g.cfg.nats, g.cfg.http, g.cfg.users)
                     /\ disk' = SaveConfig(disk, g.cfg, err)
                     /\ journal' = journal \cup
                          {Note(IF err = "nil" THEN "main.go:52" ELSE "main.go:50")}
  /\ UNCHANGED <<BootFrame, authToken, users>>

\* nats.NewServer and natsServer.Start: NewServer draws and logs a token of
\* its own when it is given none
NewServer ==
  /\ boot.pc = "NewServer"
  /\ \E startOK \in BOOLEAN :
       /\ Main(IF startOK THEN "store.New" ELSE "fatal", boot.nats, boot.http, boot.users)
       /\ journal' = journal
            \cup (IF boot.nats = "" THEN {Line("nats/server.go:58", EmptyString, NewNatsToken)} ELSE {})
            \cup {Note(IF startOK THEN "main.go:73" ELSE "main.go:70")}
  /\ UNCHANGED <<BootFrame, authToken, users, disk>>

\* store.New(natsServer.JetStream())
New ==
  /\ boot.pc = "store.New"
  /\ \E bucketOK \in BOOLEAN :
       /\ Main(IF bucketOK THEN "Start" ELSE "fatal", boot.nats, boot.http, boot.users)
       /\ journal' = journal \cup {Note(IF bucketOK THEN "main.go:81" ELSE "main.go:77")}
  /\ UNCHANGED <<BootFrame, authToken, users, disk>>

\* http.New(httpCfg, store), httpServer.Start() and the lines main logs once
\* the server runs
Start ==
  /\ boot.pc = "Start"
  /\ Main("serving", boot.nats, boot.http, boot.users)
  /\ authToken' = boot.http
  /\ journal' = journal \cup {Note("main.go:96"), Line("main.go:99", boot.http, "")}
  /\ UNCHANGED <<BootFrame, users, disk>>

\* SIGINT or SIGTERM: shutdown
shutdown ==
  /\ boot.pc = "serving"
  /\ Main("stopped", boot.nats, boot.http, boot.users)
  /\ journal' = journal \cup {Note("main.go:119")}
  /\ UNCHANGED <<BootFrame, authToken, users, disk>>

\* User.SetPassword: the bcrypt hash of the password, of whatever length
SetPassword(user, password) ==
  [user EXCEPT !.PasswordHash = GenerateFromPassword(password)]

\* a run of the user-admin tool: usage and exit without a username or a
\* password, else the configuration is loaded (a missing file is created
\* with the defaults), the user is put into it in place of one of that name,
\* and the configuration is saved
UserAdmin ==
  /\ \E username \in {"", "alice"}, password \in Passwords, isAdmin \in BOOLEAN,
        err \in SaveErrors :
       /\ username # "" /\ password # <<>>
       /\ \E created \in (IF disk.exists THEN {"nil"} ELSE SaveErrors) :
            LET file == IF disk.exists THEN disk
                        ELSE SaveConfig(disk, DefaultConfig, created)
                user == SetPassword([PasswordHash |-> <<>>, IsAdmin |-> isAdmin],
                                    password)
                cfg  == [file EXCEPT !.users =
                           [u \in DOMAIN file.users \cup {username} |->
                              IF u = username THEN user ELSE file.users[u]]]
            IN  disk' = IF created # "nil" THEN file
                        ELSE SaveConfig(file, cfg, err)
  /\ UNCHANGED <<BootFrame, authToken, users, boot, journal>>

\* AuthManager.CreateUser: the users after the call, and the error ("nil" for
\* none)
CreateUser(us, username, password) ==
  IF username = "" THEN [users |-> us, err |-> "username cannot be empty"]
  ELSE IF username \in DOMAIN us THEN [users |-> us, err |-> "already exists"]
  ELSE IF Len(password) < MinPasswordLength
  THEN [users |-> us, err |-> "password too short"]
  ELSE [users |->
          [u \in DOMAIN us \cup {username} |->
             IF u = username
             THEN [PasswordHash |-> GenerateFromPassword(password), LastLogin |-> 0]
             ELSE us[u]],
        err |-> "nil"]

\* a call of AuthManager.CreateUser
CreateUserCall ==
  /\ \E username \in {"", "alice", "bob"}, password \in Passwords :
       users' = CreateUser(users, username, password).users
  /\ UNCHANGED <<BootFrame, authToken, disk, boot, journal>>

BootNext ==
  \/ LoadConfig
  \/ MainNatsToken
  \/ MainHTTPToken
  \/ NewServer
  \/ New
  \/ Start
  \/ shutdown
  \/ UserAdmin
  \/ CreateUserCall

BootSpec == BootInit /\ [][BootNext]_vars

\* ============================================================= shutdown
\* shutdown and NATSServer.Stop, statement by statement, from a running
\* server.  boot.stop holds the state of Stop: conn (ns.conn != nil), helper
\* (where the goroutine of Stop stands), done (the values in the channel),
\* ctx (the context is done) and ret (what Stop returned).

\* make(chan bool, 1): the capacity of done
DoneCapacity == 1

StopInit ==
  /\ variant = "stateless"
  /\ authEnabled = TRUE
  /\ authToken \in Secrets
  /\ users = <<>>
  /\ sessions = <<>>
  /\ removers = {}
  /\ now = StartSeconds * TicksPerSecond
  /\ jumps = 0
  /\ logins = 0
  /\ issued = {}
  /\ loggedOut = {}
  /\ last = Idle
  /\ mu = Unlocked
  /\ procs = [t \in Threads |-> Parked]
  /\ ops = 0
  /\ bucket = <<>>
  /\ inflight = {}
  /\ log = <<>>
  /\ reply = NoReply
  /\ \E n \in NatsTokens \cup {NewNatsToken} :
       disk = [exists |-> TRUE, nats |-> n, http |-> authToken, users |-> <<>>]
  /\ \E conn \in BOOLEAN :
       boot = [pc |-> "serving", nats |-> disk.nats, http |-> authToken,
               users |-> <<>>,
               stop |-> [conn |-> conn, helper |-> "none", done |-> 0,
                         ctx |-> FALSE, ret |-> "-"]]
  /\ journal = {}

\* what no step of the shutdown touches
StopFrame == <<BootFrame, authToken, users, disk>>

\* shutdown up to the select of natsServer.Stop: the context with its
\* timeout, the channel, the goroutine
Stop ==
  /\ boot.pc = "serving"
  /\ boot' = [boot EXCEPT !.pc = "select",
                          !.stop.helper = IF boot.stop.conn THEN "Close" ELSE "Shutdown"]
  /\ journal' = journal \cup {Note("main.go:106")}
  /\ UNCHANGED StopFrame

\* the goroutine: ns.conn.Close() returns
Close ==
  /\ boot.stop.helper = "Close"
  /\ boot' = [boot EXCEPT !.stop.helper = "Shutdown"]
  /\ UNCHANGED <<StopFrame, journal>>

\* the goroutine: ns.server.Shutdown() returns
Shutdown ==
  /\ boot.stop.helper = "Shutdown"
  /\ boot' = [boot EXCEPT !.stop.helper = "send"]
  /\ UNCHANGED <<StopFrame, journal>>

\* a send on a channel without a buffer: it needs the receiver in the select
MutSendUnbuffered ==
  /\ boot.stop.helper = "send"
  /\ boot.pc = "select"
  /\ boot' = [boot EXCEPT !.stop.helper = "exited", !.pc = "httpServer.Stop",
                          !.stop.ret = "nil"]
  /\ journal' = journal \cup {Note("nats/server.go:129")}
  /\ UNCHANGED StopFrame

\* the goroutine: done <- true, into the buffer of the channel; the
\* goroutine ends
Send ==
  /\ boot.stop.helper = "send"
  /\ boot.stop.done < DoneCapacity
  /\ boot' = [boot EXCEPT !.stop.helper = "exited", !.stop.done = @ + 1]
  /\ UNCHANGED <<StopFrame, journal>>

\* the 30 seconds of context.WithTimeout are over
Timeout ==
  /\ boot.pc \in {"select", "httpServer.Stop"}
  /\ ~boot.stop.ctx
  /\ boot' = [boot EXCEPT !.stop.ctx = TRUE]
  /\ UNCHANGED <<StopFrame, journal>>

\* select, case <-done
StopDone ==
  /\ boot.pc = "select"
  /\ boot.stop.done > 0
  /\ boot' = [boot EXCEPT !.pc = "httpServer.Stop", !.stop.done = @ - 1,
                          !.stop.ret = "nil"]
  /\ journal' = journal \cup {Note("nats/server.go:129")}
  /\ UNCHANGED StopFrame

\* select, case <-ctx.Done(); shutdown logs the error
StopTimeout ==
  /\ boot.pc = "select"
  /\ boot.stop.ctx
  /\ boot' = [boot EXCEPT !.pc = "httpServer.Stop",
                          !.stop.ret = "shutdown timeout exceeded"]
  /\ journal' = journal \cup {Note("main.go:112")}
  /\ UNCHANGED StopFrame

\* httpServer.Stop(ctx) and the end of shutdown
HttpStop ==
  /\ boot.pc = "httpServer.Stop"
  /\ \E err \in BOOLEAN :
       /\ boot' = [boot EXCEPT !.pc = "stopped"]
       /\ journal' = journal
            \cup (IF err THEN {Note("main.go:116")} ELSE {})
            \cup {Note("main.go:119")}
  /\ UNCHANGED StopFrame

StopNext ==
  \/ Stop
  \/ Close
  \/ Shutdown
  \/ Send
  \/ Timeout
  \/ StopDone
  \/ StopTimeout
  \/ HttpStop

StopSpec == StopInit /\ [][StopNext]_vars

\* the Go scheduler runs the goroutines that can run, and the timer of the
\* context fires; ns.conn.Close and ns.server.Shutdown are calls into the
\* NATS libraries and may take for ever
StopFairSpec ==
  /\ StopSpec
  /\ WF_vars(Send)
  /\ WF_vars(Timeout)
  /\ WF_vars(StopDone \/ StopTimeout)
  /\ WF_vars(HttpStop)

\* ================================================================ claims
StoreHandlers == {"list", "upload", "delete", "download"}
RouteHandlers == StoreHandlers \cup {"index"}

\* last holds the response to a request (not to a sweep)
Served == last.status \notin {0, 1}

\* the session artifact the last request carried validated when it was served
ArtifactValid ==
  IF variant = "stateless"
  THEN /\ last.req.cookie # NoCookie
       /\ validateSessionToken(last.req.cookie, authToken, last.at) = "ok"
  ELSE last.present /\ last.at <= last.expiresAt

\* the last request was GET /api/list
ListGet == Served /\ last.req.method = "GET" /\ last.req.path = <<"api", "list">>

\* C1 as stated: off the allow-list (/login, /api/auth/login, /api/auth/logout,
\* /static/) a request without a valid artifact runs no handler and reaches
\* no store call, in both variants
C1_GateEveryRoute ==
  (Served /\ ~AllowListed(last.req.path) /\ ~ArtifactValid)
    => (last.handler = "none" /\ last.backend = <<>>)

\* C1 amended: the stateless server gates every path off its allow-list; the
\* stateful server, with authentication enabled, gates the four store routes
\* (its index, /api/login, /api/logout and /static/ are public); a request
\* refused by the gate runs no handler and makes no store call
C1_AuthGate ==
  (Served /\ ~ArtifactValid) =>
    IF variant = "stateless"
    THEN ~AllowListed(last.req.path) => (last.handler = "none" /\ last.backend = <<>>)
    ELSE authEnabled => (last.handler \notin StoreHandlers /\ last.backend = <<>>)

C1_Witness ==
  /\ variant = "stateless"
  /\ Served /\ ArtifactValid
  /\ last.handler = "delete" /\ last.backend # <<>>

\* C2 as stated: a GET /api/list that presents a cookie the logout handler has
\* processed is rejected (401 or redirect), in both variants
C2_LogoutInvalidates ==
  (ListGet /\ last.loggedOut) => last.status \in {401, 303}

\* C2 restricted to the stateful variant with authentication enabled: a GET
\* /api/list that presents a session cookie the logout handler has processed
\* is rejected with 401 and runs no handler
C2_LogoutRevokesSession ==
  (variant = "stateful" /\ authEnabled /\ ListGet /\ last.loggedOut)
    => (last.status = 401 /\ last.handler = "none")

C2_Witness ==
  /\ variant = "stateful" /\ authEnabled /\ ListGet /\ last.loggedOut
  /\ \E i \in issued :
       i.cookie = last.req.cookie /\ last.at < i.at + DurationTicks(variant)

\* C3 as stated: a token issued at t0 validates while now - t0 < 12h and is
\* Expired from now - t0 = 12h on
C3_RoundTripFromIssueInstant ==
  variant = "stateless" =>
    \A i \in issued :
      validateSessionToken(i.cookie, authToken, now) =
        (IF now - i.at < DurationTicks(variant) THEN "ok" ELSE "expired")

\* C3 amended: a token issued at t0 carries t0 truncated to whole seconds; it
\* validates while now - timestamp <= 12h, the instant now - timestamp = 12h
\* included, and is Expired after that
C3_RoundTripFromTimestamp ==
  variant = "stateless" =>
    \A i \in issued :
      validateSessionToken(i.cookie, authToken, now) =
        (IF now - Unix(i.at) * TicksPerSecond <= DurationTicks(variant)
         THEN "ok" ELSE "expired")

C3_Witness ==
  /\ variant = "stateless"
  /\ \E i \in issued :
       /\ i.at % TicksPerSecond # 0
       /\ now - Unix(i.at) * TicksPerSecond = DurationTicks(variant)

\* the signatures a change of the signature field can produce: every single
\* bit flip, a lost or added character, no signature at all
TamperedSignatures(sig) ==
  { FlipAt(sig, pos, k) : pos \in 1..Len(sig), k \in 0..7 }
  \cup { <<>>, SubSeq(sig, 1, Len(sig) - 1), sig \o <<HexChar(0)>> }

\* C4: a token whose signature field was changed (any single bit flipped, or
\* any other '.'-free value) is refused as BadSignature, whatever its age; no
\* bit flip of a hex digit yields a '.'
C4_TamperedIsBadSignature ==
  (variant = "stateless" /\ Ready) =>
    \A i \in issued :
      \A sig \in TamperedSignatures(i.cookie[2]) :
        /\ \A pos \in 1..Len(sig) : sig[pos] # DotChar
        /\ validateSessionToken(<<i.cookie[1], sig>>, authToken, now) = "badsig"

C4_Witness ==
  /\ variant = "stateless" /\ Ready
  /\ \E i \in issued :
       /\ validateSessionToken(i.cookie, authToken, now) = "expired"
       /\ validateSessionToken(<<i.cookie[1], FlipBit(i.cookie[2])>>, authToken, now)
            = "badsig"

\* C5 as stated: ValidateSession succeeds iff the id is in the table and
\* now < expires_at
C5_ValidBeforeExpiry ==
  variant = "stateful" =>
    \A id \in SessionIdChoices :
      (ValidateSession(sessions, id, now).err = "ok")
        <=> (id \in DOMAIN sessions /\ now < sessions[id].ExpiresAt)

\* C5 amended: ValidateSession succeeds, returning the session's username, iff
\* the id is in the table and now <= expires_at; at now = expires_at the
\* session is still valid
C5_ValidUntilExpiry ==
  variant = "stateful" =>
    \A id \in SessionIdChoices :
      LET v == ValidateSession(sessions, id, now)
      IN  /\ (v.err = "ok") <=> (id \in DOMAIN sessions /\ now <= sessions[id].ExpiresAt)
          /\ v.err = "ok" => v.username = sessions[id].Username

C5_Witness ==
  /\ variant = "stateful"
  /\ \E id \in DOMAIN sessions :
       now = sessions[id].ExpiresAt /\ ValidateSession(sessions, id, now).err = "ok"

\* the request is a login POST whose body decodes
LoginPost(r) ==
  /\ r.status \notin {0, 1}
  /\ r.handler = "login"
  /\ r.req.method = "POST"
  /\ r.req.body.ok

\* the credential of a login request is present and wrong: another secret
\* than the server's, an unknown user, or a password that is not the user's
WrongCredential(req) ==
  IF variant = "stateless"
  THEN req.body.Token # EmptyString /\ req.body.Token # authToken
  ELSE \/ req.body.Username \notin DOMAIN users
       \/ users[req.body.Username].PasswordHash
            # GenerateFromPassword(req.body.Password)

\* the credential of a login request is the right one
RightCredential(req) ==
  IF variant = "stateless"
  THEN req.body.Token = authToken
  ELSE /\ req.body.Username \in DOMAIN users
       /\ users[req.body.Username].PasswordHash
            = GenerateFromPassword(req.body.Password)

\* C6: a login POST with a wrong credential is answered 401 without a
\* Set-Cookie, hands out no session artifact and leaves the session table as
\* it was
C6_WrongCredentialRefused ==
  [][ (LoginPost(last') /\ WrongCredential(last'.req)) =>
        /\ last'.status = 401
        /\ last'.setCookie = "none"
        /\ sessions' = sessions
        /\ issued' = issued ]_vars

C6_Witness ==
  /\ variant = "stateful"
  /\ LoginPost(last) /\ last.status = 401
  /\ last.req.body.Username \in DOMAIN users
  /\ DOMAIN sessions # {}

\* the cookie was handed out, and the session duration has not elapsed at t:
\* counted from the whole-second timestamp a signed cookie carries, from the
\* creation of the session in the stateful variant
WithinDuration(cookie, t) ==
  \E i \in issued :
    /\ i.cookie = cookie
    /\ t - (IF variant = "stateless" THEN Unix(i.at) * TicksPerSecond ELSE i.at)
         < DurationTicks(variant)

RevokeOfAbsent(r) ==
  /\ variant = "stateful"
  /\ r.status \notin {0, 1}
  /\ r.handler = "logout"
  /\ r.req.method = "POST"
  /\ r.req.cookie # NoCookie
  /\ ~r.present

C10_SweepRemovesExactlyExpired ==
  [][ Sweep =>
        /\ DOMAIN sessions' \subseteq DOMAIN sessions
        /\ \A id \in DOMAIN sessions' : ~(sessions'[id].ExpiresAt < now)
        /\ \A id \in DOMAIN sessions :
             sessions[id].ExpiresAt >= now =>
               (id \in DOMAIN sessions' /\ sessions'[id] = sessions[id]) ]_vars

C10_Witness ==
  /\ last.handler = "sweep"
  /\ removers = {} /\ loggedOut = {}
  /\ \E id \in DOMAIN sessions : sessions[id].ExpiresAt = now
  /\ \E id \in IssuedCookies : id \notin DOMAIN sessions

\* every session id the model can hand out
AllSessionIds == { generateSessionID(n) : n \in 0..(MaxLogins - 1) }

\* a ValidateSession call on id has returned "session expired"
ExpiredReturned(id) ==
  \E t \in Callers :
    /\ procs[t].pc = "idle"
    /\ procs[t].op = "ValidateSession"
    /\ procs[t].id = id
    /\ procs[t].ret = "session expired"

\* C9: ValidateSession on an expired session changes no table entry itself and
\* never waits inside its critical section, so "session expired" is returned
\* while the removal is still pending; no state has goroutines inside the
\* AuthManager with none of them able to step (the reader and the waiting
\* remover do not deadlock); and, the scheduler being fair, the entry is
\* eventually gone from the table
C9_ExpiredReturnedThenRemoved ==
  /\ [][ \A t \in Threads :
           (ValidateSessionBody(t) \/ RUnlock(t)) => sessions' = sessions ]_vars
  /\ [](\A t \in Threads :
          (procs[t].op = "ValidateSession" /\ procs[t].pc \in {"body", "RUnlock"})
            => ENABLED Proceed(t))
  /\ []((\E t \in Threads : procs[t].pc # "idle")
          => ENABLED (\E t \in Threads : Proceed(t)))
  /\ \A id \in AllSessionIds :
       ExpiredReturned(id) ~> (id \notin DOMAIN sessions)

\* a caller got "session expired" while the entry is still in the table and
\* the spawned remover waits for the write lock behind a reader
C9_Witness ==
  \E id \in DOMAIN sessions :
    /\ ExpiredReturned(id)
    /\ \E g \in Threads \ Callers :
         /\ procs[g].op = "removeExpiredSession" /\ procs[g].id = id
         /\ procs[g].pc = "LockWait"
    /\ mu.readers # {}

\* goroutine t is inside the critical section of a writer (Authenticate,
\* RevokeSession, CleanupExpiredSessions, removeExpiredSession)
WriterInside(t) ==
  /\ procs[t].pc \in {"body", "Unlock"}
  /\ procs[t].op \in {"Authenticate", "RevokeSession", "CleanupExpiredSessions",
                      "ChangePassword", "SetUsers", "removeExpiredSession"}

\* goroutine t is inside the critical section of ValidateSession
ReaderInside(t) ==
  /\ procs[t].pc \in {"body", "RUnlock"}
  /\ procs[t].op = "ValidateSession"

\* C11: no writer is inside its critical section while a reader or another
\* writer is inside its own (two readers together are allowed: C11_Witness)
C11_ReaderWriterDiscipline ==
  \A t \in Threads :
    WriterInside(t) =>
      \A u \in Threads \ {t} : ~WriterInside(u) /\ ~ReaderInside(u)

\* two ValidateSession calls are inside their critical sections at once
C11_Witness ==
  \E t, u \in Callers :
    /\ t # u
    /\ ReaderInside(t) /\ ReaderInside(u)
    /\ procs[t].pc = "body" /\ procs[u].pc = "body"
    /\ sessions # <<>>

\* the step is the body of a successful Authenticate that creates session id
CreatedBy(id) ==
  \E t \in Threads :
    /\ AuthenticateBody(t)
    /\ procs'[t].ret = "ok"
    /\ id = generateSessionID(logins)

\* the step is one of the three removals of session id: a revoke of id, the
\* removal spawned on detecting its expiry, or a sweep after its expiry
DestroyedBy(id) ==
  \E t \in Threads :
    \/ RevokeSessionBody(t) /\ procs[t].id = id
    \/ removeExpiredSessionBody(t) /\ procs[t].id = id
         /\ now > sessions[id].ExpiresAt
    \/ CleanupExpiredSessionsBody(t) /\ now > sessions[id].ExpiresAt

\* C12: a session enters the table only by a successful credential check and
\* leaves it only by a revoke, the removal after its expiry was detected, or
\* a sweep after its expiry; so a session that was created, was not revoked
\* and has not reached expires_at is in the table and validates with its
\* username
C12_SessionLifecycle ==
  /\ [][ /\ \A id \in DOMAIN sessions' \ DOMAIN sessions : CreatedBy(id)
         /\ \A id \in DOMAIN sessions \ DOMAIN sessions' : DestroyedBy(id) ]_vars
  /\ [](\A i \in issued :
          (i.cookie \notin loggedOut /\ now < i.at + DurationTicks("stateful"))
            => /\ i.cookie \in DOMAIN sessions
               /\ ValidateSession(sessions, i.cookie, now)
                    = [username |-> "alice", err |-> "ok"])

\* two sessions were created; one has expired and was removed by the sweep
\* or by the removal spawned on detecting the expiry, the other, neither
\* revoked nor expired, is in the table
C12_Witness ==
  /\ Cardinality(issued) = 2
  /\ \E i \in issued :
       /\ i.cookie \in DOMAIN sessions
       /\ i.cookie \notin loggedOut
       /\ now < i.at + DurationTicks("stateful")
  /\ \E j \in issued : j.cookie \notin DOMAIN sessions /\ j.cookie \notin loggedOut

\* ------------------------------------------------------------------ C13
\* a key the backend is safe with: not empty, and of a-z, A-Z, 0-9, '.',
\* '-', '_' only
SafeKey(k) == k # <<>> /\ \A i \in 1..Len(k) : KeptRune(k[i])

\* C13: every key handed to the backend, by an upload (put), a download (get,
\* get-info) or a delete, is non-empty and holds only letters, digits, '.',
\* '_' and '-', whatever the request path and the filename were.
C13_BackendKeysSafe ==
  /\ \A u \in inflight : SafeKey(u.key)
  /\ \A i \in 1..Len(log) : SafeKey(log[i].key)
  /\ (reply.handler \in {"delete", "download"} /\ reply.status \in {200, 404, 500})
       => SafeKey(reply.key)

\* ------------------------------------------------------------------ C14
\* raw filenames: "../../etc/passwd", "..", "/", "//", "a/", "x/.", "./", "",
\* ".", "***", "a b", "a_b", "a\b", "e" with an acute accent, "A-1.z"
RawNames ==
  { <<46, 46, 47, 46, 46, 47, 101, 116, 99, 47, 112, 97, 115, 115, 119, 100>>,
    <<46, 46>>, <<47>>, <<47, 47>>, <<97, 47>>, <<120, 47, 46>>, <<46, 47>>,
    <<>>, <<46>>, <<42, 42, 42>>, <<97, 32, 98>>, <<97, 95, 98>>,
    <<97, 92, 98>>, <<233>>, <<65, 45, 49, 46, 122>> }

\* ^[0-9]+_[A-Za-z0-9._-]+$
MatchesKeyPattern(k) ==
  \E i \in 2..(Len(k) - 1) :
    /\ k[i] = 95
    /\ \A j \in 1..(i - 1) : k[j] \in 48..57
    /\ \A j \in (i + 1)..Len(k) : KeptRune(k[j])

\* the name a raw filename is to be stored under: its last path element
\* (trailing separators aside) with every character outside a-z, A-Z, 0-9,
\* '.', '-', '_' turned into '_'; "unnamed_file" for the empty name and for
\* "."; a name of separators only has the separator as its last element
ExpectedName(raw) ==
  LET body == {i \in 1..Len(raw) : raw[i] # 47}
  IN  IF raw = <<>> THEN UnnamedFile
      ELSE IF body = {} THEN <<95>>
      ELSE LET e == CHOOSE i \in body : \A j \in body : j <= i
               seps == {i \in 1..e : raw[i] = 47}
               b == IF seps = {} THEN 1
                    ELSE 1 + (CHOOSE i \in seps : \A j \in seps : j <= i)
               seg == SubSeq(raw, b, e)
               name == [i \in 1..Len(seg) |->
                          IF KeptRune(seg[i]) THEN seg[i] ELSE 95]
           IN  IF name = <<46>> THEN UnnamedFile ELSE name

\* C14: for every raw filename and at every time the key made for it is the
\* decimal Unix second, '_', and the sanitized last path element of the raw
\* filename ("unnamed_file" when that is empty or "."); it is never empty and
\* matches ^[0-9]+_[A-Za-z0-9._-]+$.  The keys of the uploads under way and
\* of the finished ones are made this way from the filename sent.
C14_KeyWellFormed ==
  /\ \A raw \in RawNames \cup UploadNames :
       /\ UploadKey(raw, now) # <<>>
       /\ MatchesKeyPattern(UploadKey(raw, now))
       /\ UploadKey(raw, now) = Digits(Unix(now)) \o <<95>> \o ExpectedName(raw)
  /\ \A u \in inflight :
       /\ MatchesKeyPattern(u.key)
       /\ u.key = Digits(u.sec) \o <<95>> \o ExpectedName(u.raw)
  /\ \A i \in 1..Len(log) :
       /\ MatchesKeyPattern(log[i].key)
       /\ log[i].key = Digits(log[i].sec) \o <<95>> \o ExpectedName(log[i].filename)

\* an upload sent as "../a" was stored as <second>_a, in the second after the
\* start
C14_Witness ==
  \E i \in 1..Len(log) :
    /\ log[i].filename = <<46, 46, 47, 97>>
    /\ log[i].status = 200
    /\ log[i].key = Digits(StartSeconds + 1) \o <<95, 97>>
    /\ log[i].key \in Live(bucket)

\* ------------------------------------------------------------------ C15
\* the finished uploads that were answered with success
Succeeded == {i \in 1..Len(log) : log[i].status = 200}

\* no later successful upload was stored under the key of the i-th
LastUnderKey(i) ==
  \A j \in Succeeded : j > i => log[j].key # log[i].key

\* C15 as stated: any two uploads of one filename that both succeed are
\* stored under two different keys.
C15_SameNameDistinctKeys ==
  \A i, j \in Succeeded :
    (i < j /\ log[i].filename = log[j].filename) => log[i].key # log[j].key

\* C15, amended: two uploads of one filename that both succeed, overlapping
\* or not, are stored under different keys exactly when their keys were made
\* in different seconds; then both objects are in the bucket and each, unless
\* deleted, reads back its own content.  Made in the same second, the two
\* share one key and the bucket holds it once.
C15_DistinctSecondsDistinctKeys ==
  \A i, j \in Succeeded :
    (i < j /\ log[i].filename = log[j].filename) =>
      /\ (log[i].key # log[j].key) <=> (log[i].sec # log[j].sec)
      /\ log[i].sec # log[j].sec =>
           \A m \in {i, j} :
             /\ log[m].key \in DOMAIN bucket
             /\ (log[m].key \in Live(bucket) /\ LastUnderKey(m))
                  => GetBytes(bucket, log[m].key).data = log[m].data

\* two overlapping uploads of one filename (the one started later finished
\* first) with keys of different seconds, both stored and readable
C15_Witness ==
  /\ Len(log) = 2
  /\ Succeeded = {1, 2}
  /\ log[1].n > log[2].n
  /\ log[1].filename = log[2].filename
  /\ log[1].sec # log[2].sec
  /\ log[1].data # log[2].data
  /\ \A m \in {1, 2} : GetBytes(bucket, log[m].key).data = log[m].data

\* ------------------------------------------------------------------ C16
\* C16: uploads with pairwise distinct original filenames, into an empty
\* store and all succeeding, get pairwise distinct keys and the bucket holds
\* one object for each of them, also when the filenames differ only in a
\* directory or only in characters that are stored as '_'.
C16_DistinctNamesDistinctKeys ==
  /\ \A i, j \in Succeeded :
       (i < j /\ log[i].filename # log[j].filename) => log[i].key # log[j].key
  /\ (\A i, j \in Succeeded : i < j => log[i].filename # log[j].filename)
       => Cardinality(DOMAIN bucket) = Cardinality(Succeeded)

\* ------------------------------------------------------------------ C17
\* C17: after an upload of content c under filename f that returned key k, a
\* download of k, with k neither deleted nor stored again since, is answered
\* with exactly c and with f as the name of the object.
C17_RoundTrip ==
  \A i \in Succeeded :
    (log[i].key \in Live(bucket) /\ LastUnderKey(i)) =>
      LET r == DownloadResponse(variant, bucket, "GET", log[i].body.Key)
      IN  /\ r.status = 200
          /\ r.data = log[i].data
          /\ r.key = log[i].filename

\* the content half of C17 in the stateful server
C17_ContentStateful ==
  variant = "stateful" =>
    \A i \in Succeeded :
      (log[i].key \in Live(bucket) /\ LastUnderKey(i)) =>
        LET r == DownloadResponse(variant, bucket, "GET", log[i].body.Key)
        IN  r.status = 200 /\ r.data = log[i].data

\* ------------------------------------------------------------------ C18
\* C18: an upload is answered with success (200, status "success", the key)
\* only if PutReader returned no error for that key; when PutReader failed
\* the answer is 500 and carries no success body.
C18_SuccessOnlyAfterPut ==
  \A i \in 1..Len(log) :
    /\ (log[i].status = 200 \/ log[i].body.Status = "success")
         => /\ log[i].err = "nil"
            /\ log[i].body.Key = log[i].key
    /\ log[i].err # "nil"
         => /\ log[i].status = 500
            /\ log[i].body.Status # "success"
            /\ log[i].body.Key = <<>>

\* one upload failed in the backend and was answered 500, another was stored
\* and answered with success
C18_Witness ==
  /\ \E i \in 1..Len(log) : log[i].err # "nil" /\ log[i].status = 500
  /\ \E i \in 1..Len(log) :
       /\ log[i].err = "nil"
       /\ log[i].status = 200
       /\ log[i].key \in Live(bucket)

\* ------------------------------------------------------------------ C19
\* C19: an upload whose payload is larger than the 32 MiB ceiling (40 MiB,
\* say) is answered 413, no put is issued for it and the bucket never holds
\* it.
C19_OversizeRejected ==
  /\ \A u \in inflight : u.size <= MaxMemory
  /\ \A i \in 1..Len(log) : log[i].size <= MaxMemory
  /\ \A k \in Live(bucket) : bucket[k].size <= MaxMemory

\* ------------------------------------------------------------------ C20
\* a DELETE was answered, with the backend called, for a key whose object an
\* earlier delete had removed and no upload had stored again
SecondDelete ==
  /\ reply'.handler = "delete"
  /\ reply'.status \notin {400, 405}
  /\ reply'.key \in DOMAIN bucket
  /\ bucket[reply'.key].deleted

\* C20, second half: the second DELETE of a key, with no upload in between,
\* is answered 404, neither with success nor with 500.
C20_SecondDeleteNotFound == [][SecondDelete => reply'.status = 404]_vars

\* C20, first half: DELETE /api/delete/{key} of a key in the store addresses
\* that key, so that the first delete can remove it.
C20_DeleteAddressesKey ==
  \A k \in Live(bucket) : DeleteKey(variant, k) = k

\* ------------------------------------------------------------------ C21
\* C21: an OPTIONS request, to any path and with or without a session
\* cookie, is answered at once with 204 and the allow headers, and ends
\* there: the auth gate is not consulted, no handler runs, no store call is
\* made, no cookie is set, and nothing of the server's state changes.
C21_PreflightShortCircuit ==
  /\ []((Served /\ last.req.method = "OPTIONS") =>
          /\ last.status = 204
          /\ last.allow = AllowMethods
          /\ last.gate = "none"
          /\ last.handler = "none"
          /\ last.backend = <<>>
          /\ last.setCookie = "none"
          /\ last.location = ""
          /\ last.revoke = "-")
  /\ [][last'.req.method = "OPTIONS" =>
          UNCHANGED <<sessions, removers, users, logins, issued, loggedOut>>]_vars

\* a preflight to the protected /api/list that carried a session cookie the
\* server had handed out
C21_Witness ==
  /\ Served
  /\ last.req.method = "OPTIONS"
  /\ last.req.path = <<"api", "list">>
  /\ last.req.cookie \in IssuedCookies
  /\ last.status = 204

\* ------------------------------------------------------------------ C22
\* C22: a request the auth gate refuses (no cookie, or a cookie that does
\* not validate: malformed, badly signed, expired, unknown session) is
\* answered with a redirect to the login route when it accepts text/html and
\* with 401 otherwise, in the stateless and in the stateful variant.
C22_GateFailureResponse ==
  (Served /\ last.gate \in {"nocookie", "invalid"}) =>
    IF last.req.html
    THEN last.status = 303 /\ last.location = "/login"
    ELSE last.status = 401

\* C22 in the stateless variant alone
C22_StatelessGateFailure ==
  (variant = "stateless" /\ Served /\ last.gate \in {"nocookie", "invalid"}) =>
    IF last.req.html
    THEN last.status = 303 /\ last.location = "/login"
    ELSE last.status = 401

\* ------------------------------------------------------------------ C23
\* C23: in the stateful variant a request whose session cookie fails
\* validation (unknown or expired session id) is answered with a response
\* that tells the client to clear its session cookie.
C23_StatefulFailureClearsCookie ==
  (variant = "stateful" /\ Served /\ last.gate = "invalid")
    => last.setCookie = "clear"

\* ------------------------------------------------------------------ C24
\* the method the handler of a route serves
RouteMethod(h) ==
  CASE h = "upload" -> "POST"
    [] h = "login" -> "POST"
    [] h = "logout" -> "POST"
    [] h = "delete" -> "DELETE"
    [] OTHER -> "GET"

\* the path is none of the routes: the mux hands it to the catch-all "/"
UnknownPath(path) == path # <<>> /\ Route(variant, path) = "index"

\* C24: a request the gate lets through is served by the one handler of its
\* method and path; a known path asked with another method is answered 405,
\* and a path that is no route (/nope) is answered 404 and served by no
\* handler.
C24_RouteDispatch ==
  (Served /\ last.req.method # "OPTIONS" /\ last.gate \in {"open", "pass"}
     /\ ~Unclean(last.req)) =>
    IF UnknownPath(last.req.path)
    THEN last.status = 404 /\ last.handler = "none"
    ELSE /\ last.handler = Route(variant, last.req.path)
         /\ last.req.method # RouteMethod(last.handler) => last.status = 405

\* ------------------------------------------------------------------ C29
\* C29: in the stateless variant the outcome of validating a presented token
\* is a function of the token, the secret and the time of the request alone:
\* whatever logins, logouts and other requests came before, the gate passes
\* the request exactly when validateSessionToken(token, secret, time) accepts,
\* and refuses it with that function's error otherwise.
C29_StatelessValidityPure ==
  (variant = "stateless" /\ Served /\ last.req.method # "OPTIONS"
     /\ ~AllowListed(last.req.path) /\ getSessionToken(last.req) # EmptyString) =>
    LET v == validateSessionToken(last.req.cookie, authToken, last.at)
    IN  /\ last.verdict = v
        /\ (last.gate = "pass") <=> (v = "ok")
        /\ (last.gate = "invalid") <=> (v # "ok")
        /\ (last.handler # "none") => (v = "ok")

\* a token the logout handler had processed before, presented again within
\* its lifetime after another login, is accepted as it would be without that
\* history
C29_Witness ==
  /\ variant = "stateless"
  /\ Served
  /\ ~AllowListed(last.req.path)
  /\ last.loggedOut
  /\ logins = 2
  /\ last.gate = "pass"
  /\ validateSessionToken(last.req.cookie, authToken, last.at) = "ok"

\* ------------------------------------------------------------------ C30
\* HMAC-SHA256 of the timestamp field under the secret, in hex
ExpectedSignature(secret, timestamp) == HexEncode(HmacSum(Bytes(secret), timestamp))

\* tokens to classify: the ones handed out, each with a changed signature,
\* without its signature, with a third field, with the timestamp 0 under the
\* old signature; the empty token and the token without any field
TokensToClassify ==
  UNION { { c, <<c[1], FlipBit(c[2])>>, <<c[1]>>, c \o << <<49>> >>,
            <<Digits(0), c[2]>> } : c \in IssuedCookies }
  \cup {EmptyString, <<>>}

\* C30: a token that does not split into exactly two '.'-separated fields is
\* MalformedToken; else one whose signature is not MAC(secret, t) is
\* BadSignature; else one with now - t > session duration is Expired; in
\* that order, so a badly signed old token is BadSignature; and only a token
\* that passes all three is accepted.
C30_ErrorClassification ==
  variant = "stateless" =>
    \A tk \in TokensToClassify :
      LET v == validateSessionToken(tk, authToken, now)
          twoFields == Len(tk) = 2
          signed == twoFields /\ tk[2] = ExpectedSignature(authToken, tk[1])
          old == twoFields
                 /\ now - Sscanf(tk[1]) * TicksPerSecond
                      > SessionDuration * TicksPerSecond
      IN  /\ ~twoFields => v = "malformed"
          /\ (twoFields /\ ~signed) => v = "badsig"
          /\ (signed /\ old) => v = "expired"
          /\ (v = "ok") <=> (signed /\ ~old)

\* a request presented an expired token with a changed signature and was
\* refused for the signature; the same token with a third field is malformed
C30_Witness ==
  /\ variant = "stateless"
  /\ Served
  /\ last.verdict = "badsig"
  /\ \E c \in IssuedCookies :
       /\ last.req.cookie = <<c[1], FlipBit(c[2])>>
       /\ validateSessionToken(c, authToken, last.at) = "expired"
       /\ validateSessionToken(c \o << <<49>> >>, authToken, last.at) = "malformed"

\* ------------------------------------------------------------------ C28
\* C28: after any sequence of successful uploads and deletes, listing the
\* store returns exactly the keys that were uploaded and not deleted since,
\* in any order.
C28_ListEnumeratesStored ==
  LET listed == ListKeys(bucket)
  IN  /\ listed.err = "nil"
      /\ {listed.keys[i] : i \in 1..Len(listed.keys)} = Live(bucket)

\* ------------------------------------------------------------------ C25
\* C25: the HTTP server serves only with a non-empty secret that has been
\* saved to the configuration: main never serves after the save of a newly
\* generated secret failed.
C25_SecretPersistedBeforeServing ==
  boot.pc = "serving" =>
    /\ authToken # EmptyString
    /\ Note("main.go:50") \notin journal

\* the part of C25 main keeps: it serves with a non-empty secret, and not at
\* all when none could be generated
C25_ServesWithSecret ==
  boot.pc = "serving" =>
    /\ authToken # EmptyString
    /\ Note("main.go:45") \notin journal

\* ------------------------------------------------------------------ C27
\* C27: no line of the process log prints the HTTP signing secret or the
\* NATS token.
C27_LogHoldsNoToken ==
  \A e \in journal : e.http = EmptyString /\ e.nats = ""

\* ------------------------------------------------------------------ C26
\* the record is the hash of a password of the minimum length or more
StrongHash(hash) ==
  \E p \in Passwords :
    Len(p) >= MinPasswordLength /\ hash = GenerateFromPassword(p)

\* C26: no credential is stored for a password shorter than 8 characters,
\* by the user-admin tool or by AuthManager.CreateUser.
C26_NoWeakCredentialStored ==
  /\ \A u \in DOMAIN disk.users : StrongHash(disk.users[u].PasswordHash)
  /\ \A u \in DOMAIN users : StrongHash(users[u].PasswordHash)

\* the part of C26 AuthManager.CreateUser keeps
C26_CreateUserRejectsWeak ==
  \A u \in DOMAIN users : StrongHash(users[u].PasswordHash)

\* ------------------------------------------------------------------ C31
\* C31: every response that went through the CORS stage advertises DELETE
\* among the allowed methods.
C31_CorsAdvertisesDelete ==
  Served => \E i \in DOMAIN last.allow : last.allow[i] = "DELETE"

\* ------------------------------------------------------------------ C32
\* C32: a handler that has started a response never writes a second status:
\* every request of the object gateway ends in exactly one response.
C32_HandlerWritesOnce ==
  reply.handler # "none" => Len(reply.writes) = 1

\* ------------------------------------------------------------------ C33
\* the response to an upload whose client went away before the body was
\* complete
CutUpload(r) == r.handler = "upload" /\ r.err = "unexpected EOF"

\* C33: an upload whose client disconnects before the whole multipart body
\* has arrived is answered 400 without a key; no put is pending or made for
\* it, and the step that answers it leaves the bucket, the pending puts and
\* the finished uploads as they were.
C33_DisconnectedUploadNotStored ==
  /\ []((\A u \in inflight : ~u.cut)
        /\ (CutUpload(reply) =>
              /\ reply.status = 400
              /\ reply.key = <<>>
              /\ reply.writes = <<400>>))
  /\ [][CutUpload(reply') => UNCHANGED <<bucket, inflight, log>>]_vars

\* a disconnected upload was refused while an object was stored and another
\* upload was on its way to the backend
C33_Witness ==
  /\ CutUpload(reply)
  /\ Live(bucket) # {}
  /\ inflight # {}

\* ------------------------------------------------------------------ C34
\* what follows "<timestamp>_" in the key of a finished upload
NameInKey(e) == SubSeq(e.key, Len(Digits(e.sec)) + 2, Len(e.key))

\* C34: the name in every key the JavaScript server hands to the object
\* store is non-empty and holds only letters, digits, '.', '_' and '-'.
C34_JsKeysSafe ==
  \A i \in 1..Len(log) : SafeKey(NameInKey(log[i]))

\* the part of C34 the JavaScript server keeps: every key is the
\* millisecond timestamp, '_' and a non-empty name
C34_JsKeyHasTimestamp ==
  \A i \in 1..Len(log) :
    /\ SubSeq(log[i].key, 1, Len(Digits(log[i].sec)) + 1)
         = Digits(log[i].sec) \o <<95>>
    /\ NameInKey(log[i]) # <<>>

\* ------------------------------------------------------------------ C35
\* C35: in every interleaving, the entry removeExpiredSession deletes is
\* either absent already or expired at the moment of the deletion; a pending
\* removal never names a session that validates.
C35_RemovalOnlyOfExpired ==
  /\ [](\A t \in Threads :
          (procs[t].op = "removeExpiredSession" /\ procs[t].pc \in {"Lock", "LockWait", "body"}
           /\ procs[t].id \in DOMAIN sessions)
            => now > sessions[procs[t].id].ExpiresAt)
  /\ [][\A t \in Threads :
          (/\ procs[t].op = "removeExpiredSession"
           /\ procs[t].pc = "body"
           /\ procs'[t].pc = "Unlock"
           /\ procs[t].id \in DOMAIN sessions)
            => /\ now > sessions[procs[t].id].ExpiresAt
               /\ sessions' = DeleteSession(sessions, procs[t].id)]_vars

\* a spawned removal has deleted the expired session it was given, and the
\* session of a later login is in the table and validates
C35_Witness ==
  \E t \in Threads :
    /\ procs[t].op = "removeExpiredSession"
    /\ procs[t].pc = "Unlock"
    /\ procs[t].id \in IssuedCookies
    /\ procs[t].id \notin DOMAIN sessions
    /\ \E id \in DOMAIN sessions : ValidateSession(sessions, id, now).err = "ok"

\* ------------------------------------------------------------------ C36
\* C36: a successful Authenticate adds exactly one entry and changes no
\* other; RevokeSession(id) removes the entry of id and no other.
C36_SessionsIndependent ==
  [][\A t \in Threads :
       (procs[t].pc = "body" /\ procs'[t].pc = "Unlock") =>
         /\ (procs[t].op = "Authenticate" /\ procs'[t].ret = "ok") =>
              /\ Cardinality(DOMAIN sessions' \ DOMAIN sessions) = 1
              /\ \A id \in DOMAIN sessions :
                   id \in DOMAIN sessions' /\ sessions'[id] = sessions[id]
         /\ procs[t].op = "RevokeSession" =>
              /\ DOMAIN sessions' = DOMAIN sessions \ {procs[t].id}
              /\ \A id \in DOMAIN sessions' : sessions'[id] = sessions[id]]_vars

\* alice logged in twice; one of her sessions has just been revoked and the
\* other is in the table and validates
C36_Witness ==
  \E t \in Threads :
    /\ procs[t].op = "RevokeSession"
    /\ procs[t].pc = "Unlock"
    /\ procs[t].ret = "nil"
    /\ procs[t].id \in IssuedCookies
    /\ procs[t].id \notin DOMAIN sessions
    /\ \E id \in DOMAIN sessions :
         /\ sessions[id].Username = "alice"
         /\ ValidateSession(sessions, id, now).err = "ok"

\* ------------------------------------------------------------------ C37
\* the session validates at this moment
Validates(id) == ValidateSession(sessions, id, now).err = "ok"

\* C37: ChangePassword and SetUsers leave the session table as it is, and
\* every session that validated before the call validates after it,
\* whoever its username is.
C37_CredentialChangeKeepsSessions ==
  [][\A t \in Threads :
       (/\ procs[t].pc = "body"
        /\ procs[t].op \in {"ChangePassword", "SetUsers"}
        /\ procs'[t].pc = "Unlock") =>
         /\ sessions' = sessions
         /\ \A id \in DOMAIN sessions : Validates(id) => Validates(id)']_vars

\* ValidateSession has just accepted a session of alice although SetUsers
\* has taken alice away
C37_Witness ==
  \E t \in Threads :
    /\ procs[t].op = "ValidateSession"
    /\ procs[t].pc = "RUnlock"
    /\ procs[t].ret = "ok"
    /\ sessions[procs[t].id].Username = "alice"
    /\ "alice" \notin DOMAIN users

\* ------------------------------------------------------------------ C38
\* the path a redirect of the server names
Target(resp) == IF resp.location = "/login" THEN <<"login">> ELSE <<>>

\* the cookies a client may send after the response: the one it sent, or
\* none when the response cleared it
Kept(cookie, resp) ==
  IF resp.setCookie = "clear" THEN {cookie, NoCookie} ELSE {cookie}

\* C38: a browser that starts at / or at /login, with whatever cookie, is
\* served a page with 200 after at most one redirect; when time passes (a
\* token expires) between the first request and the next, after at most two.
C38_NoRedirectLoop ==
  /\ [](\A start \in {<<>>, <<"login">>}, c \in CookieChoices :
          \A r1 \in {Navigate(start, c)} :
            \/ r1.status = 200
            \/ /\ r1.status = 303
               /\ \A c2 \in Kept(c, r1) : Navigate(Target(r1), c2).status = 200)
  /\ [][now' # now =>
        \A start \in {<<>>, <<"login">>}, c \in CookieChoices :
          \A r1 \in {Navigate(start, c)} :
            r1.status = 303 =>
              \A c2 \in Kept(c, r1), p2 \in {Target(r1)} :
                \A r2 \in {Navigate(p2, c2)'} :
                  \/ r2.status = 200
                  \/ /\ r2.status = 303
                     /\ \A c3 \in Kept(c2, r2), p3 \in {Target(r2)} :
                          Navigate(p3, c3)'.status = 200]_vars

\* the login page has just sent a client with a valid token to the index,
\* while the token of an earlier login has expired and takes its client from
\* the index to the login page
C38_Witness ==
  /\ Served
  /\ last.handler = "loginPage"
  /\ last.status = 303
  /\ last.location = "/"
  /\ \E c \in IssuedCookies :
       /\ Navigate(<<>>, c).status = 303
       /\ Navigate(<<>>, c).location = "/login"

\* ------------------------------------------------------------------ C39
\* C39: NATSServer.Stop always returns: nil once the goroutine has closed
\* the connection, shut the server down and sent on done, or the timeout
\* error once the context is done; the send of the goroutine can always go
\* ahead, so the goroutine that reaches it ends.
C39_StopAlwaysReturns ==
  /\ (boot.pc = "select") ~> (boot.pc = "httpServer.Stop")
  /\ (boot.stop.helper = "send") ~> (boot.stop.helper = "exited")
  /\ [](boot.stop.helper = "send" => boot.stop.done < DoneCapacity)
  /\ [][(boot.pc = "select" /\ boot'.pc # "select") =>
          \/ /\ boot'.stop.ret = "nil"
             /\ boot'.stop.helper = "exited"
          \/ /\ boot'.stop.ret = "shutdown timeout exceeded"
             /\ boot.stop.ctx]_vars

\* shutdown is over, Stop returned the timeout error, and the goroutine
\* finished afterwards: its value sits in the channel
C39_Witness ==
  /\ boot.pc = "stopped"
  /\ boot.stop.ret = "shutdown timeout exceeded"
  /\ boot.stop.helper = "exited"
  /\ boot.stop.done = 1

====
